---- MODULE Spec2Model ----
(***************************************************************************)
(* Model of the remote-entity orchestration client (OpenFluke/pixel).      *)
(*                                                                         *)
(* The repository holds several near-duplicate programs.  Three of their   *)
(* main functions are modelled, selected by the variable prog:             *)
(*   "basic"   src/engine.go 153-250     spawn, unfreeze, despawn          *)
(*   "stiffen" src/engine.go 616-746     spawn, linkCubes x2, the three    *)
(*             per-parameter stiffen strategies, unfreeze, despawn         *)
(*   "dog"     src/unnamed/part_000 755-1000  spawn, colour, bulk stiffen, *)
(*             link_body_cubes x2, chain links, unfreeze, actuate, despawn *)
(*                                                                         *)
(* A thread is a goroutine (or the activation of a helper on the main      *)
(* goroutine).  Every network operation, lock operation, load and store of *)
(* a registry and WaitGroup operation is one step.                         *)
(***************************************************************************)
EXTENDS Integers, Sequences, FiniteSets, TLC

VARIABLES
    prog,             \* which main function runs
    ip,               \* main: index of the current statement of the script
    mpc,              \* main: position inside the current statement
    iter,             \* main: items the current range loop has still to visit
    wg,               \* counter of the current sync.WaitGroup
    th,               \* live threads: id -> record
    globalCubeList,   \* entity registry
    globalCubeLinks,  \* link registry
    cubeListMutex,    \* set of thread ids inside cubeListMutex
    linkListMutex,    \* set of thread ids inside linkListMutex
    exited,           \* main has returned: the process is gone
    call              \* activation of a function examined on its own

vars == <<prog, ip, mpc, iter, wg, th, globalCubeList,
          globalCubeLinks, cubeListMutex, linkListMutex, exited, call>>

(***************************************************************************)
(* Bounds of the model.                                                    *)
(***************************************************************************)
MaxCubes == 2        \* cubes taken from each cube list
MaxParams == 2       \* parameters taken from the stiffening parameter map

(***************************************************************************)
(* Session constants.                                                      *)
(***************************************************************************)
authPass == "my_secure_password"
delimiter == "<???DONE???---"
ReadDeadlineSeconds == 3

Programs == {"basic", "stiffen", "dog"}

\* cubeGroups, flattened in range order (the first names of every main).
AllCubeNames == <<"rightear", "leftear", "head1", "head2">>
cubeGroups == SubSeq(AllCubeNames, 1, MaxCubes)

\* mouthCubes of setMouthColorYellow (its first two names).
mouthCubes == <<"leftmouth_BASE", "rightmouth_BASE">>

\* The stiffening parameter map (a Go map: iteration order is not fixed).
AllStiffenParams ==
    <<[name |-> "limit_upper", value |-> 0],
      [name |-> "limit_lower", value |-> 0],
      [name |-> "motor_enable", value |-> 1],
      [name |-> "motor_target_velocity", value |-> 0],
      [name |-> "motor_max_impulse", value |-> 1000]>>
StiffenParams == {AllStiffenParams[i] : i \in 1..MaxParams}

\* chains passed to linkCubeChains by main (its tail chains).
chains == <<<<"tail1_BASE", "tail2_BASE", "tail3_BASE">>,
            <<"body17_BASE", "tail3_BASE">>>>

\* The joints array of a well-formed reply to get_joints_for_cube.
\* A session sees at most one joint; rotateCubeJoints run on its own also sees
\* two.
JointReplies ==
    IF prog = "rotateCubeJoints"
    THEN {<<>>, <<"joint_hinge_tail2_BASE_tail3_BASE">>,
          <<"joint_hinge_tail2_BASE_tail3_BASE", "joint_hinge_body17_BASE_tail3_BASE">>}
    ELSE {<<>>, <<"joint_hinge_tail2_BASE_tail3_BASE">>}


(***************************************************************************)
(* The statements of each main, in order.                                  *)
(***************************************************************************)
BasicScript == <<[op |-> "spawn"], [op |-> "unfreeze"], [op |-> "despawn"]>>

\* The stiffen main with the release moved before the stiffening.
StiffenScriptReleaseFirst ==
    <<[op |-> "spawn"], [op |-> "unfreeze"],
      [op |-> "linkCubes", cubeA |-> "tail1_BASE", cubeB |-> "tail2_BASE",
       jointType |-> "hinge", jointName |-> "tail_joint1"],
      [op |-> "stiffen"], [op |-> "singleConn"], [op |-> "singleThreaded"],
      [op |-> "linkCubes", cubeA |-> "tail2_BASE", cubeB |-> "tail3_BASE",
       jointType |-> "hinge", jointName |-> "tail_joint2"],
      [op |-> "despawn"]>>

StiffenScript ==
    <<[op |-> "spawn"],
      [op |-> "linkCubes", cubeA |-> "tail1_BASE", cubeB |-> "tail2_BASE",
       jointType |-> "hinge", jointName |-> "tail_joint1"],
      [op |-> "linkCubes", cubeA |-> "tail2_BASE", cubeB |-> "tail3_BASE",
       jointType |-> "hinge", jointName |-> "tail_joint2"],
      [op |-> "stiffen"], [op |-> "singleConn"], [op |-> "singleThreaded"],
      [op |-> "unfreeze"], [op |-> "despawn"]>>

DogScript ==
    <<[op |-> "spawn"], [op |-> "color"], [op |-> "bulk"],
      [op |-> "testLink", prefix |-> "body"],
      [op |-> "testLink", prefix |-> "head"],
      [op |-> "chains"], [op |-> "unfreeze"],
      [op |-> "rotate", cube |-> "tail3_BASE"], [op |-> "despawn"]>>

\* The four stiffening functions, each of which can be run on its own over a
\* link registry that is given.
Strategies == {"stiffenAllJoints", "stiffenAllJointsBULK",
               "SingleTCPConnectionExamplestiffenAllJoints",
               "SingleThreadedstiffenAllJoints"}
StrategyOp(fn) ==
    CASE fn = "stiffenAllJoints" -> "stiffen"
      [] fn = "stiffenAllJointsBULK" -> "bulk"
      [] fn = "SingleTCPConnectionExamplestiffenAllJoints" -> "singleConn"
      [] fn = "SingleThreadedstiffenAllJoints" -> "singleThreaded"

Script ==
    IF prog = "basic" THEN BasicScript
    ELSE IF prog = "stiffen" THEN StiffenScript
    ELSE IF prog = "dog" THEN DogScript
    ELSE IF prog \in Strategies THEN <<[op |-> StrategyOp(prog)]>>
    ELSE IF prog = "handleCube" THEN <<[op |-> "handleCube"]>>
    ELSE <<[op |-> "rotate", cube |-> "tail3_BASE"]>>

BatchOps == {"spawn", "color", "unfreeze", "despawn", "stiffen", "bulk",
             "handleCube"}
HelperOps == {"linkCubes", "testLink", "chains", "singleConn", "singleThreaded",
              "getJoints"}

(***************************************************************************)
(* Threads.  Id 0 is the helper running on the main goroutine, ids 1..n    *)
(* are the goroutines of the current WaitGroup batch, negative ids are the *)
(* goroutines started by rotateCubeJoints (which belong to no WaitGroup).  *)
(* A thread record holds the locals of the function: its position pc, its  *)
(* argument, the state of its connection, the frames it has passed to      *)
(* conn.Write (sent), the last call it made on the connection or to        *)
(* time.Sleep (last), the error that made it return (err), its loop        *)
(* variables (left, queue) and the slice it has read for an append (tmp).  *)
(***************************************************************************)
UnitIds == {t \in DOMAIN th : t > 0}
CycleIds == {t \in DOMAIN th : t < 0}

NewThread(kind, arg, left, queue) ==
    [kind |-> kind, pc |-> "dial", arg |-> arg, conn |-> "none", sent |-> <<>>,
     last |-> "", err |-> "", left |-> left, queue |-> queue, tmp |-> <<>>]

\* Batches that range over the cubes main asked for, not over the registry.
BatchItemsFromInput(op) ==
    CASE op \in {"spawn", "unfreeze", "despawn"} -> cubeGroups
      [] op = "color" -> mouthCubes
      [] op \in {"stiffen", "bulk"} -> globalCubeLinks

\* A range loop that stops one entry short of the end of the registry.
BatchItemsWithoutLast(op) ==
    CASE op = "spawn" -> cubeGroups
      [] op = "color" -> mouthCubes
      [] op \in {"unfreeze", "despawn"} ->
            SubSeq(globalCubeList, 1, Len(globalCubeList) - 1)
      [] op \in {"stiffen", "bulk"} ->
            SubSeq(globalCubeLinks, 1, Len(globalCubeLinks) - 1)

\* What the range loop of each batch function iterates over, read once when
\* the loop starts.
BatchItems(op) ==
    CASE op \in {"spawn", "handleCube"} -> cubeGroups
      [] op = "color" -> mouthCubes
      [] op \in {"unfreeze", "despawn"} -> globalCubeList
      [] op \in {"stiffen", "bulk"} -> globalCubeLinks

\* A lifecycle that freezes before it releases.
CubeStepsFreezeFirst == <<"spawn", "freeze", "unfreeze", "despawn">>

\* The messages handleCube sends on its connection after the password, in
\* the order of its statements.
CubeSteps == <<"spawn", "unfreeze", "freeze", "despawn">>

NewUnit(op, item) ==
    NewThread(op, item, IF op = "stiffen" THEN StiffenParams ELSE {},
              IF op = "handleCube" THEN CubeSteps ELSE <<>>)

\* The (cubeA, cubeB) pairs linkCubeChains records, in chain then position order.
RECURSIVE ChainPairs(_)
ChainPairs(cs) ==
    IF cs = <<>> THEN <<>>
    ELSE [i \in 1..(IF Len(Head(cs)) = 0 THEN 0 ELSE Len(Head(cs)) - 1) |->
             <<Head(cs)[i], Head(cs)[i + 1]>>] \o ChainPairs(Tail(cs))

NewHelper(stmt) ==
    CASE stmt.op = "linkCubes" -> NewThread("linkCubes", stmt, {}, <<>>)
      [] stmt.op = "testLink" -> NewThread("testLink", stmt.prefix, {}, <<>>)
      [] stmt.op = "chains" -> NewThread("chains", chains, {}, ChainPairs(chains))
      [] stmt.op \in {"singleConn", "singleThreaded"} ->
            NewThread(stmt.op, "", IF globalCubeLinks = <<>> THEN {} ELSE StiffenParams,
                      globalCubeLinks)
      [] stmt.op = "rotate" -> NewThread("getJoints", stmt.cube, {}, <<>>)

\* velocity passed by main to rotateCubeJoints, and the three target
\* velocities of one actuation cycle.
velocity == -3
CycleVelocitiesWithoutStop == <<velocity, -velocity>>
CycleVelocities == <<velocity, -velocity, 0>>
NewCycle(jn) == NewThread("cycle", jn, {}, CycleVelocities)

(***************************************************************************)
(* Wire messages.                                                          *)
(***************************************************************************)
\* The password without the sentinel after it.
AuthFrameWithoutSentinel == [raw |-> authPass]
AuthFrame == [raw |-> authPass \o delimiter]
\* sendJSONMessage: the JSON body followed by the delimiter.
sendJSONMessage(msg) == [json |-> msg, end |-> delimiter]

SpawnMessage(name) == [type |-> "spawn_cube", cube_name |-> name, is_base |-> TRUE]

\* A release that freezes instead.
UnfreezeMessageFreezing(name) ==
    [type |-> "freeze_cube", cube_name |-> name, freeze |-> TRUE]
UnfreezeMessage(name) == [type |-> "freeze_cube", cube_name |-> name, freeze |-> FALSE]

FreezeMessage(name) == [type |-> "freeze_cube", cube_name |-> name, freeze |-> TRUE]

DespawnMessage(name) == [type |-> "despawn_cube", cube_name |-> name]

\* The message of one step of handleCube: fullCubeName := cube.Name + "_BASE"
\* is used by every message after the spawn.
CubeMessage(step, name) ==
    CASE step = "spawn" -> SpawnMessage(name)
      [] step = "unfreeze" -> UnfreezeMessage(name \o "_BASE")
      [] step = "freeze" -> FreezeMessage(name \o "_BASE")
      [] step = "despawn" -> DespawnMessage(name \o "_BASE")

\* The command a thread builds at its command step; p is the parameter a
\* per-parameter stiffen loop has reached.
Command(t, p) ==
    LET r == th[t] IN
    CASE r.kind = "spawn" -> SpawnMessage(r.arg)
      [] r.kind = "color" ->
            [type |-> "set_color", cube_name |-> r.arg, hex |-> "#FFFF00"]
      [] r.kind = "unfreeze" -> UnfreezeMessage(r.arg)
      [] r.kind = "despawn" -> DespawnMessage(r.arg)
      [] r.kind = "linkCubes" ->
            [type |-> "create_joint", cube1 |-> r.arg.cubeA, cube2 |-> r.arg.cubeB,
             joint_type |-> r.arg.jointType, joint_name |-> r.arg.jointName]
      [] r.kind = "testLink" ->
            [type |-> "link_body_cubes", prefix |-> r.arg, joint_type |-> "hinge"]
      [] r.kind = "chains" ->
            [type |-> "link_cube_chains", chains |-> r.arg, joint_type |-> "hinge"]
      [] r.kind = "getJoints" ->
            [type |-> "get_joints_for_cube", cube_name |-> r.arg]
      [] r.kind = "stiffen" ->
            [type |-> "set_joint_param", joint_name |-> r.arg.JointName,
             param_name |-> p.name, value |-> p.value]
      [] r.kind \in {"singleConn", "singleThreaded"} ->
            [type |-> "set_joint_param", joint_name |-> Head(r.queue).JointName,
             param_name |-> p.name, value |-> p.value]
      [] r.kind = "bulk" ->
            [type |-> "set_joint_params", joint_name |-> r.arg.JointName,
             params |-> StiffenParams]
      [] r.kind = "handleCube" -> CubeMessage(Head(r.queue), r.arg)
      [] r.kind = "cycle" ->
            [type |-> "set_joint_params", joint_name |-> r.arg,
             params |-> [motor_enable |-> 1, motor_target_velocity |-> Head(r.queue),
                         motor_max_impulse |-> 500]]

(***************************************************************************)
(* Control flow of a thread.                                               *)
(***************************************************************************)
PerParamKinds == {"stiffen", "singleConn", "singleThreaded"}

\* Where a thread goes when its function returns: the deferred wg.Done of a
\* batch goroutine, the end of a detached goroutine, or the return of a
\* helper to main.
AfterClose(kind) ==
    IF kind \in BatchOps THEN "wgdone"
    ELSE IF kind = "cycle" THEN "done" ELSE "ret"

\* The statement after the authentication decode cycle.
AfterAuth(r) ==
    IF r.kind \in {"singleConn", "singleThreaded"} /\ r.queue = <<>>
    THEN "close" ELSE "cmd"

\* A decode cycle with no deadline ends only when the stream fails.
ReadCompletesOnErrorOnly(t) == th[t].conn = "closed"

\* readResponse sets a read deadline of ReadDeadlineSeconds before its first
\* read, so the decode cycle ends even if the peer never sends anything.
ReadCompletes(t) == ReadDeadlineSeconds > 0

\* A lock that excludes nobody.
CanLockAlways(mutex) == TRUE

\* sync.Mutex.Lock returns only when nobody is inside.
CanLock(mutex) == mutex = {}

\* A Wait that returns at once.
WaitReturnsAtOnce(counter) == TRUE

\* sync.WaitGroup.Wait returns only when the counter is zero.
WaitMayReturn(counter) == counter = 0

\* A failed write after which the function returns with its connection open.
ReturnOnWriteError(r, step) == [r EXCEPT !.pc = AfterClose(r.kind), !.err = step]

\* A failed write: the error is printed and the function returns, which runs
\* the deferred conn.Close.
ContinueOnWriteError(r, step) ==
    [r EXCEPT !.err = step,
              !.pc = IF step = "auth" THEN "authRead"
                     ELSE IF r.kind \in {"spawn", "linkCubes"} THEN "lock" ELSE "cmdRead"]
OnWriteError(r, step) == [r EXCEPT !.pc = "close", !.err = step]

\* Actuation goroutines that share one params message: the velocity one of
\* them stores is the velocity all of them send next.
SetSharingParams(t, r) ==
    th' = [u \in DOMAIN th |->
             IF u = t THEN r
             ELSE IF r.kind = "cycle" /\ th[u].kind = "cycle" /\ th[u].queue # <<>>
             THEN [th[u] EXCEPT !.queue = r.queue]
             ELSE th[u]]

\* A step of thread t assigns to the locals of t only.
Set(t, r) == th' = [th EXCEPT ![t] = r]

\* What a thread knows of its last conn.Write: whether it returned an error.
WriteResult(ok) == IF ok THEN "write" ELSE "writeFailed"

(***************************************************************************)
(* Steps of a thread.                                                      *)
(***************************************************************************)
\* A dial whose failure path returns without running the deferred wg.Done.
DialFailureSkipsDone(t) ==
    /\ ~exited
    /\ th[t].pc = "dial"
    /\ \E ok \in BOOLEAN :
          Set(t, IF ok THEN [th[t] EXCEPT !.pc = "auth", !.conn = "open", !.last = "dial"]
                 ELSE [th[t] EXCEPT !.pc = "done", !.err = "dial"])
    /\ UNCHANGED <<call, prog, ip, mpc, iter, wg, globalCubeList,
                   globalCubeLinks, cubeListMutex, linkListMutex, exited>>

\* net.Dial.  On failure the function returns; nothing was deferred but
\* wg.Done.
Dial(t) ==
    /\ ~exited
    /\ th[t].pc = "dial"
    /\ \E ok \in BOOLEAN :
          Set(t, IF ok THEN [th[t] EXCEPT !.pc = "auth", !.conn = "open", !.last = "dial"]
                 ELSE [th[t] EXCEPT !.pc = AfterClose(th[t].kind), !.err = "dial"])
    /\ UNCHANGED <<call, prog, ip, mpc, iter, wg, globalCubeList,
                   globalCubeLinks, cubeListMutex, linkListMutex, exited>>

\* conn.Write([]byte(authPass + delimiter)).  rotateCubeJoints ignores the
\* result; every other caller returns on error.
AuthWrite(t) ==
    /\ ~exited
    /\ th[t].pc = "auth"
    /\ \E ok \in BOOLEAN :
          LET r == [th[t] EXCEPT !.sent = Append(@, AuthFrame),
                                 !.last = WriteResult(ok)] IN
          Set(t, IF ok \/ r.kind = "cycle" THEN [r EXCEPT !.pc = "authRead"]
                 ELSE OnWriteError(r, "auth"))
    /\ UNCHANGED <<call, prog, ip, mpc, iter, wg, globalCubeList,
                   globalCubeLinks, cubeListMutex, linkListMutex, exited>>

\* What follows the decode cycle of a command.
AfterCmdRead(r) ==
    CASE r.kind = "chains" -> "lock"
      [] r.kind \in PerParamKinds ->
            IF r.queue = <<>> /\ r.left = {} THEN "close" ELSE "cmd"
      [] r.kind = "cycle" -> IF r.queue = <<>> THEN "close" ELSE "sleep"
      [] OTHER -> "close"

\* How a decode cycle can end: with text, with no text, at the read deadline
\* or at a stream error.
ReadOutcomes == {"text", "empty", "deadline", "error"}

\* The error a decode cycle reports after it reported its reads' errors.
ReadErrReported(outcome) ==
    IF outcome \in {"deadline", "error"} THEN outcome ELSE "nil"

\* A decode cycle that reports the read deadline to its caller.
ReadErrOnDeadline(outcome) == IF outcome = "deadline" THEN outcome ELSE "nil"

\* The error readResponse returns: `return strings.TrimSpace(full), nil'.
ReadErr(outcome) == "nil"

\* The callers that test the error of the authentication decode cycle, and
\* those that return when the decode cycle of their command reports one.
AuthReadChecked == {"spawn", "color", "stiffen", "bulk", "singleConn",
                    "singleThreaded", "testLink", "chains", "getJoints",
                    "handleCube"}
CmdReadChecked == {"bulk", "testLink", "chains", "getJoints"}

\* A caller that goes on only if the server answered with text.
AfterAuthReadValidated(r, outcome) ==
    IF outcome # "text" THEN [r EXCEPT !.pc = "close", !.err = "authRead"]
    ELSE [r EXCEPT !.pc = AfterAuth(r)]

\* The caller after the authentication decode cycle:
\* `if _, err := readResponse(conn); err != nil { return }', then the command.
AfterAuthRead(r, outcome) ==
    IF r.kind \in AuthReadChecked /\ ReadErr(outcome) # "nil"
    THEN [r EXCEPT !.pc = "close", !.err = "authRead"]
    ELSE [r EXCEPT !.pc = AfterAuth(r)]

\* json.Unmarshal of the text of the query's decode cycle succeeds only on
\* text that is a well-formed reply; an empty or cut-off text is rejected.
Unmarshals(outcome, wellFormed) == outcome = "text" /\ wellFormed

\* A query that returns the joints it found although it printed an error.
JointsDespiteError(ok, reply) == reply

\* What getJointsForCube returns: resp.Joints, or nil after an error.
Joints(ok, reply) == IF ok THEN reply ELSE <<>>

\* One decode cycle (readResponse).  The text it returns is used by
\* getJointsForCube only, whose joints (after json.Unmarshal) are kept in tmp.
ReadResponse(t) ==
    /\ ~exited
    /\ th[t].pc \in {"authRead", "cmdRead"}
    /\ ReadCompletes(t)
    /\ \E outcome \in ReadOutcomes :
       LET r == [th[t] EXCEPT !.last = "read"] IN
       IF r.pc = "authRead"
       THEN Set(t, AfterAuthRead(r, outcome))
       ELSE IF r.kind \in CmdReadChecked /\ ReadErr(outcome) # "nil"
       THEN Set(t, [r EXCEPT !.pc = "close", !.err = "cmdRead"])
       ELSE IF r.kind = "getJoints"
       THEN \E wellFormed \in BOOLEAN : \E reply \in JointReplies :
               LET ok == Unmarshals(outcome, wellFormed) IN
               Set(t, [r EXCEPT !.pc = "close",
                                !.err = IF ok THEN "" ELSE "unmarshal",
                                !.tmp = Joints(ok, reply)])
       ELSE Set(t, [r EXCEPT !.pc = AfterCmdRead(r)])
    /\ UNCHANGED <<call, prog, ip, mpc, iter, wg, globalCubeList,
                   globalCubeLinks, cubeListMutex, linkListMutex, exited>>

\* A goroutine of stiffenAllJoints that stops after its first parameter.
AdvanceToLoopEnd(r, p) ==
    LET rest == r.left \ {p} IN
    IF r.kind = "stiffen" THEN [r EXCEPT !.left = {}]
    ELSE IF rest # {} THEN [r EXCEPT !.left = rest]
    ELSE [r EXCEPT !.queue = Tail(@),
                   !.left = IF Tail(r.queue) = <<>> THEN {} ELSE StiffenParams]

\* The loop state of a per-parameter stiffen thread once parameter p of the
\* current joint has been handled.
Advance(r, p) ==
    LET rest == r.left \ {p} IN
    IF r.kind = "stiffen" \/ rest # {} THEN [r EXCEPT !.left = rest]
    ELSE [r EXCEPT !.queue = Tail(@),
                   !.left = IF Tail(r.queue) = <<>> THEN {} ELSE StiffenParams]

\* A per-parameter loop that writes its next command without waiting for the
\* answer to the one it has just written.
AfterCommandPipelined(r, p, ok) ==
    CASE r.kind \in {"spawn", "linkCubes"} ->
            IF ok THEN [r EXCEPT !.pc = "lock"] ELSE OnWriteError(r, "cmd")
      [] r.kind \in {"color", "unfreeze", "despawn"} ->
            [r EXCEPT !.pc = "close"]
      [] r.kind \in {"testLink", "chains", "getJoints", "bulk"} ->
            IF ok THEN [r EXCEPT !.pc = "cmdRead"] ELSE OnWriteError(r, "cmd")
      [] r.kind \in PerParamKinds ->
            LET n == Advance(r, p) IN
            [n EXCEPT !.pc = IF n.queue = <<>> /\ n.left = {} THEN "cmdRead" ELSE "cmd"]
      [] r.kind = "cycle" ->
            [r EXCEPT !.pc = "cmdRead", !.queue = Tail(@)]

\* The state of thread r after it has written its command with result ok.
AfterCommand(r, p, ok) ==
    CASE r.kind \in {"spawn", "linkCubes"} ->
            IF ok THEN [r EXCEPT !.pc = "lock"] ELSE OnWriteError(r, "cmd")
      [] r.kind \in {"color", "unfreeze", "despawn"} ->
            [r EXCEPT !.pc = "close"]
      [] r.kind \in {"testLink", "chains", "getJoints", "bulk"} ->
            IF ok THEN [r EXCEPT !.pc = "cmdRead"] ELSE OnWriteError(r, "cmd")
      [] r.kind \in PerParamKinds ->
            LET n == Advance(r, p) IN
            IF ok THEN [n EXCEPT !.pc = "cmdRead"]
            ELSE [n EXCEPT !.pc = IF n.queue = <<>> /\ n.left = {}
                                  THEN "close" ELSE "cmd"]
      [] r.kind = "cycle" ->
            [r EXCEPT !.pc = "cmdRead", !.queue = Tail(@)]
      [] r.kind = "handleCube" ->
            IF ok THEN [r EXCEPT !.queue = Tail(@),
                                 !.pc = IF Tail(r.queue) = <<>>
                                        THEN "close" ELSE "sleep"]
            ELSE OnWriteError(r, "cmd")

\* The entity registry after a thread has sent its command: no command
\* touches it (despawnAllCubes leaves the entry of the cube it despawns).
RECURSIVE Without(_, _)
Without(list, x) ==
    IF list = <<>> THEN <<>>
    ELSE IF Head(list) = x THEN Without(Tail(list), x)
    ELSE <<Head(list)>> \o Without(Tail(list), x)
CubeListWithoutDespawned(t) ==
    IF th[t].kind = "despawn" THEN Without(globalCubeList, th[t].arg)
    ELSE globalCubeList
CubeListAfterCommand(t) == globalCubeList

\* sendJSONMessage of the thread's (next) command.
SendCommand(t) ==
    /\ ~exited
    /\ th[t].pc = "cmd"
    /\ \E ok \in BOOLEAN :
       \E p \in (IF th[t].kind \in PerParamKinds THEN th[t].left
                 ELSE {AllStiffenParams[1]}) :
          LET r == [th[t] EXCEPT !.sent = Append(@, sendJSONMessage(Command(t, p))),
                                 !.last = WriteResult(ok)]
          IN  Set(t, AfterCommand(r, p, ok))
    /\ globalCubeList' = CubeListAfterCommand(t)
    /\ UNCHANGED <<call, prog, ip, mpc, iter, wg, globalCubeLinks, cubeListMutex,
                   linkListMutex, exited>>

\* A return that leaves the connection open.
ReturnWithoutClose(t) ==
    /\ ~exited
    /\ th[t].pc = "close"
    /\ Set(t, [th[t] EXCEPT !.pc = AfterClose(th[t].kind)])
    /\ UNCHANGED <<call, prog, ip, mpc, iter, wg, globalCubeList,
                   globalCubeLinks, cubeListMutex, linkListMutex, exited>>

\* time.Sleep(duration) between two commands of an actuation cycle or of
\* handleCube.
Sleep(t) ==
    /\ ~exited
    /\ th[t].pc = "sleep"
    /\ Set(t, [th[t] EXCEPT !.pc = "cmd", !.last = "sleep"])
    /\ UNCHANGED <<call, prog, ip, mpc, iter, wg, globalCubeList,
                   globalCubeLinks, cubeListMutex, linkListMutex, exited>>

\* conn.Close, deferred.
Close(t) ==
    /\ ~exited
    /\ th[t].pc = "close"
    /\ Set(t, [th[t] EXCEPT !.pc = AfterClose(th[t].kind), !.conn = "closed",
                            !.last = "close"])
    /\ UNCHANGED <<call, prog, ip, mpc, iter, wg, globalCubeList,
                   globalCubeLinks, cubeListMutex, linkListMutex, exited>>

\* A failure path that calls wg.Done itself, before the deferred one runs.
WgDoneTwiceOnError(t) ==
    /\ ~exited
    /\ th[t].pc = "wgdone"
    /\ wg' = IF th[t].err # "" THEN wg - 2 ELSE wg - 1
    /\ Set(t, [th[t] EXCEPT !.pc = "done"])
    /\ UNCHANGED <<call, prog, ip, mpc, iter, globalCubeList,
                   globalCubeLinks, cubeListMutex, linkListMutex, exited>>

\* wg.Done, deferred first and so run last.
WgDone(t) ==
    /\ ~exited
    /\ th[t].pc = "wgdone"
    /\ wg' = wg - 1
    /\ Set(t, [th[t] EXCEPT !.pc = "done"])
    /\ UNCHANGED <<call, prog, ip, mpc, iter, globalCubeList,
                   globalCubeLinks, cubeListMutex, linkListMutex, exited>>

(***************************************************************************)
(* Registry appends.  `list = append(list, x)' reads the slice, then       *)
(* stores the extended slice: two steps, made atomic only by the mutex.    *)
(***************************************************************************)
UsesCubeList(kind) == kind = "spawn"

\* The entry without the "_BASE" suffix the server adds to a spawned cube.
ItemCallerName(r) == r.arg

\* The entry a thread appends next.
Item(r) ==
    CASE r.kind = "spawn" -> r.arg \o "_BASE"
      [] r.kind = "linkCubes" ->
            [JointName |-> r.arg.jointName, CubeA |-> r.arg.cubeA, CubeB |-> r.arg.cubeB]
      [] r.kind = "chains" ->
            [JointName |-> "joint_" \o "hinge" \o "_" \o Head(r.queue)[1]
                           \o "_" \o Head(r.queue)[2],
             CubeA |-> Head(r.queue)[1], CubeB |-> Head(r.queue)[2]]

Lock(t) ==
    /\ ~exited
    /\ th[t].pc = "lock"
    /\ IF UsesCubeList(th[t].kind)
       THEN /\ CanLock(cubeListMutex)
            /\ cubeListMutex' = cubeListMutex \cup {t}
            /\ UNCHANGED linkListMutex
       ELSE /\ CanLock(linkListMutex)
            /\ linkListMutex' = linkListMutex \cup {t}
            /\ UNCHANGED cubeListMutex
    /\ Set(t, [th[t] EXCEPT !.pc = IF th[t].kind = "chains" /\ th[t].queue = <<>>
                                   THEN "unlock" ELSE "append"])
    /\ UNCHANGED <<call, prog, ip, mpc, iter, wg, globalCubeList,
                   globalCubeLinks, exited>>

AppendRead(t) ==
    /\ ~exited
    /\ th[t].pc = "append"
    /\ Set(t, [th[t] EXCEPT !.pc = "store",
                            !.tmp = IF UsesCubeList(th[t].kind)
                                    THEN globalCubeList ELSE globalCubeLinks])
    /\ UNCHANGED <<call, prog, ip, mpc, iter, wg, globalCubeList,
                   globalCubeLinks, cubeListMutex, linkListMutex, exited>>

AppendWrite(t) ==
    /\ ~exited
    /\ th[t].pc = "store"
    /\ IF UsesCubeList(th[t].kind)
       THEN /\ globalCubeList' = Append(th[t].tmp, Item(th[t]))
            /\ UNCHANGED globalCubeLinks
       ELSE /\ globalCubeLinks' = Append(th[t].tmp, Item(th[t]))
            /\ UNCHANGED globalCubeList
    /\ Set(t, IF th[t].kind = "chains"
              THEN [th[t] EXCEPT !.queue = Tail(@), !.tmp = <<>>,
                                 !.pc = IF Tail(th[t].queue) = <<>>
                                        THEN "unlock" ELSE "append"]
              ELSE [th[t] EXCEPT !.pc = "unlock", !.tmp = <<>>])
    /\ UNCHANGED <<call, prog, ip, mpc, iter, wg, cubeListMutex,
                   linkListMutex, exited>>

\* An unlock deferred before the close, so that it runs after it.
UnlockAfterClose(t) ==
    /\ ~exited
    /\ th[t].pc = "unlock"
    /\ IF th[t].conn = "open"
       THEN /\ Set(t, [th[t] EXCEPT !.conn = "closed", !.last = "close"])
            /\ UNCHANGED <<cubeListMutex, linkListMutex>>
       ELSE /\ IF UsesCubeList(th[t].kind)
               THEN cubeListMutex' = cubeListMutex \ {t} /\ UNCHANGED linkListMutex
               ELSE linkListMutex' = linkListMutex \ {t} /\ UNCHANGED cubeListMutex
            /\ Set(t, [th[t] EXCEPT !.pc = "close"])
    /\ UNCHANGED <<call, prog, ip, mpc, iter, wg, globalCubeList,
                   globalCubeLinks, exited>>

Unlock(t) ==
    /\ ~exited
    /\ th[t].pc = "unlock"
    /\ IF UsesCubeList(th[t].kind)
       THEN cubeListMutex' = cubeListMutex \ {t} /\ UNCHANGED linkListMutex
       ELSE linkListMutex' = linkListMutex \ {t} /\ UNCHANGED cubeListMutex
    /\ Set(t, [th[t] EXCEPT !.pc = "close"])
    /\ UNCHANGED <<call, prog, ip, mpc, iter, wg, globalCubeList,
                   globalCubeLinks, exited>>

(***************************************************************************)
(* Steps of main.                                                          *)
(***************************************************************************)
Running == ~exited /\ ip <= Len(Script)

\* A batch function is entered: `var wg sync.WaitGroup' and the range
\* expression is evaluated.
StartBatch ==
    /\ Running /\ mpc = "start" /\ Script[ip].op \in BatchOps
    /\ iter' = BatchItems(Script[ip].op)
    /\ mpc' = IF iter' = <<>> THEN "wait" ELSE "launch"
    /\ UNCHANGED <<call, prog, ip, wg, th, globalCubeList, globalCubeLinks,
                   cubeListMutex, linkListMutex, exited>>

\* The launching loop without its wg.Add(1).
LaunchWithoutAdd ==
    /\ Running /\ mpc = "launch"
    /\ th' = th @@ ((Cardinality(UnitIds) + 1) :> NewUnit(Script[ip].op, Head(iter)))
    /\ iter' = Tail(iter)
    /\ mpc' = IF iter' = <<>> THEN "wait" ELSE "launch"
    /\ UNCHANGED <<call, prog, ip, wg, globalCubeList, globalCubeLinks,
                   cubeListMutex, linkListMutex, exited>>

\* One iteration of the launching loop: wg.Add(1); go unit(item).
Launch ==
    /\ Running /\ mpc = "launch"
    /\ wg' = wg + 1
    /\ th' = th @@ ((Cardinality(UnitIds) + 1) :> NewUnit(Script[ip].op, Head(iter)))
    /\ iter' = Tail(iter)
    /\ mpc' = IF iter' = <<>> THEN "wait" ELSE "launch"
    /\ UNCHANGED <<call, prog, ip, globalCubeList, globalCubeLinks,
                   cubeListMutex, linkListMutex, exited>>

\* A batch function that returns to main without joining its goroutines.
WaitWithoutJoin ==
    /\ Running /\ mpc = "wait"
    /\ ip' = ip + 1
    /\ mpc' = "start"
    /\ UNCHANGED <<call, prog, iter, wg, th, globalCubeList, globalCubeLinks,
                   cubeListMutex, linkListMutex, exited>>

\* wg.Wait returns; the goroutines of the batch are gone.
Wait ==
    /\ Running /\ mpc = "wait"
    /\ WaitMayReturn(wg)
    /\ th' = [t \in DOMAIN th \ UnitIds |-> th[t]]
    /\ ip' = ip + 1
    /\ mpc' = "start"
    /\ UNCHANGED <<call, prog, iter, wg, globalCubeList, globalCubeLinks,
                   cubeListMutex, linkListMutex, exited>>

\* main calls a helper that runs on the main goroutine.
Call ==
    /\ Running /\ mpc = "start" /\ Script[ip].op \notin BatchOps
    /\ th' = th @@ (0 :> NewHelper(Script[ip]))
    /\ mpc' = "call"
    /\ UNCHANGED <<call, prog, ip, iter, wg, globalCubeList, globalCubeLinks,
                   cubeListMutex, linkListMutex, exited>>

\* The helper returns.  rotateCubeJoints goes on to start one goroutine per
\* joint getJointsForCube returned, or returns if there is none.
Return ==
    /\ Running /\ mpc = "call" /\ th[0].pc = "ret"
    /\ th' = [t \in DOMAIN th \ {0} |-> th[t]]
    /\ IF th[0].kind = "getJoints" /\ th[0].tmp # <<>>
       THEN iter' = th[0].tmp /\ mpc' = "go" /\ ip' = ip
       ELSE iter' = iter /\ mpc' = "start" /\ ip' = ip + 1
    /\ UNCHANGED <<call, prog, wg, globalCubeList, globalCubeLinks,
                   cubeListMutex, linkListMutex, exited>>

\* rotateCubeJoints: go func(jn string) {...}(joint), with no WaitGroup.
GoCycle ==
    /\ Running /\ mpc = "go"
    /\ th' = th @@ ((0 - Cardinality(CycleIds) - 1) :> NewCycle(Head(iter)))
    /\ iter' = Tail(iter)
    /\ IF iter' = <<>> THEN mpc' = "start" /\ ip' = ip + 1
       ELSE mpc' = mpc /\ ip' = ip
    /\ UNCHANGED <<call, prog, wg, globalCubeList, globalCubeLinks,
                   cubeListMutex, linkListMutex, exited>>

\* main returns: the process exits and every goroutine still running stops.
Exit ==
    /\ ~exited /\ ip > Len(Script)
    /\ exited' = TRUE
    /\ UNCHANGED <<call, prog, ip, mpc, iter, wg, th, globalCubeList,
                   globalCubeLinks, cubeListMutex, linkListMutex>>

(***************************************************************************)
(* The specification.                                                      *)
(***************************************************************************)
\* No function is examined on its own during a session.
NoCall == [fn |-> "none"]

Init ==
    /\ prog \in Programs
    /\ ip = 1
    /\ mpc = "start"
    /\ iter = <<>>
    /\ wg = 0
    /\ th = [t \in {} |-> <<>>]
    /\ globalCubeList = <<>>
    /\ globalCubeLinks = <<>>
    /\ cubeListMutex = {}
    /\ linkListMutex = {}
    /\ exited = FALSE
    /\ call = NoCall

MainStep == StartBatch \/ Launch \/ Wait \/ Call \/ Return \/ GoCycle \/ Exit

Next ==
    \/ MainStep
    \/ \E t \in DOMAIN th : Dial(t)
    \/ \E t \in DOMAIN th : AuthWrite(t)
    \/ \E t \in DOMAIN th : ReadResponse(t)
    \/ \E t \in DOMAIN th : SendCommand(t)
    \/ \E t \in DOMAIN th : Lock(t)
    \/ \E t \in DOMAIN th : AppendRead(t)
    \/ \E t \in DOMAIN th : AppendWrite(t)
    \/ \E t \in DOMAIN th : Unlock(t)
    \/ \E t \in DOMAIN th : Close(t)
    \/ \E t \in DOMAIN th : WgDone(t)
    \/ \E t \in DOMAIN th : Sleep(t)

Spec == Init /\ [][Next]_vars

\* The sessions that consist of WaitGroup batches and helpers only (the two
\* mains of engine.go), under the assumption that the Go scheduler runs every
\* runnable goroutine and that dial, write and read calls return.
WaitGroupInit == Init /\ prog \in {"basic", "stiffen"}

WaitGroupNext ==
    \/ StartBatch \/ Launch \/ Wait \/ Call \/ Return \/ Exit
    \/ \E t \in DOMAIN th : Dial(t)
    \/ \E t \in DOMAIN th : AuthWrite(t)
    \/ \E t \in DOMAIN th : ReadResponse(t)
    \/ \E t \in DOMAIN th : SendCommand(t)
    \/ \E t \in DOMAIN th : Lock(t)
    \/ \E t \in DOMAIN th : AppendRead(t)
    \/ \E t \in DOMAIN th : AppendWrite(t)
    \/ \E t \in DOMAIN th : Unlock(t)
    \/ \E t \in DOMAIN th : Close(t)
    \/ \E t \in DOMAIN th : WgDone(t)

FairSpec == WaitGroupInit /\ [][WaitGroupNext]_vars /\ WF_vars(WaitGroupNext)

\* A stiffening function run on its own: the registry holds the links
\* recorded before the call, and the function is the only statement.
StrategyLinks ==
    <<[JointName |-> "tail_joint1", CubeA |-> "tail1_BASE", CubeB |-> "tail2_BASE"],
      [JointName |-> "tail_joint2", CubeA |-> "tail2_BASE", CubeB |-> "tail3_BASE"]>>

StrategyInit ==
    /\ prog \in Strategies
    /\ ip = 1
    /\ mpc = "start"
    /\ iter = <<>>
    /\ wg = 0
    /\ th = [t \in {} |-> <<>>]
    /\ globalCubeList = <<>>
    /\ globalCubeLinks \in {SubSeq(StrategyLinks, 1, n) : n \in 0..Len(StrategyLinks)}
    /\ cubeListMutex = {}
    /\ linkListMutex = {}
    /\ exited = FALSE
    /\ call = NoCall

StrategyNext ==
    \/ StartBatch \/ Launch \/ Wait \/ Call \/ Return \/ Exit
    \/ \E t \in DOMAIN th : Dial(t)
    \/ \E t \in DOMAIN th : AuthWrite(t)
    \/ \E t \in DOMAIN th : ReadResponse(t)
    \/ \E t \in DOMAIN th : SendCommand(t)
    \/ \E t \in DOMAIN th : Close(t)
    \/ \E t \in DOMAIN th : WgDone(t)

StrategySpec == StrategyInit /\ [][StrategyNext]_vars

\* rotateCubeJoints run on its own: the query, then one goroutine per joint.
RotateInit ==
    /\ prog = "rotateCubeJoints"
    /\ ip = 1
    /\ mpc = "start"
    /\ iter = <<>>
    /\ wg = 0
    /\ th = [t \in {} |-> <<>>]
    /\ globalCubeList = <<>>
    /\ globalCubeLinks = <<>>
    /\ cubeListMutex = {}
    /\ linkListMutex = {}
    /\ exited = FALSE
    /\ call = NoCall

RotateNext ==
    \/ Call \/ Return \/ GoCycle
    \/ \E t \in DOMAIN th : Dial(t)
    \/ \E t \in DOMAIN th : AuthWrite(t)
    \/ \E t \in DOMAIN th : ReadResponse(t)
    \/ \E t \in DOMAIN th : SendCommand(t)
    \/ \E t \in DOMAIN th : Sleep(t)
    \/ \E t \in DOMAIN th : Close(t)

RotateSpec == RotateInit /\ [][RotateNext]_vars

\* The program whose main starts one handleCube goroutine per cube and waits
\* for all of them.
CubeInit ==
    /\ prog = "handleCube"
    /\ ip = 1
    /\ mpc = "start"
    /\ iter = <<>>
    /\ wg = 0
    /\ th = [t \in {} |-> <<>>]
    /\ globalCubeList = <<>>
    /\ globalCubeLinks = <<>>
    /\ cubeListMutex = {}
    /\ linkListMutex = {}
    /\ exited = FALSE
    /\ call = NoCall

CubeNext ==
    \/ StartBatch \/ Launch \/ Wait \/ Exit
    \/ \E t \in DOMAIN th : Dial(t)
    \/ \E t \in DOMAIN th : AuthWrite(t)
    \/ \E t \in DOMAIN th : ReadResponse(t)
    \/ \E t \in DOMAIN th : SendCommand(t)
    \/ \E t \in DOMAIN th : Sleep(t)
    \/ \E t \in DOMAIN th : Close(t)
    \/ \E t \in DOMAIN th : WgDone(t)

CubeSpec == CubeInit /\ [][CubeNext]_vars

(***************************************************************************)
(* The functions examined on their own.  The session variables keep their  *)
(* initial values; call holds the arguments and locals of the function.    *)
(***************************************************************************)
sessionVars == <<prog, ip, mpc, iter, wg, th, globalCubeList,
                 cubeListMutex, linkListMutex, exited>>

SessionIdle ==
    /\ prog = "dog"
    /\ ip = 1
    /\ mpc = "start"
    /\ iter = <<>>
    /\ wg = 0
    /\ th = [t \in {} |-> <<>>]
    /\ globalCubeList = <<>>
    /\ cubeListMutex = {}
    /\ linkListMutex = {}
    /\ exited = FALSE

(***************************************************************************)
(* readResponse, byte by byte.  Text is a sequence of one-character        *)
(* strings.  stream is what the peer sends before it goes quiet, got the   *)
(* number of bytes conn.Read has handed to the bufio.Reader and reads      *)
(* whether it did so in no, one or several calls, used the number of bytes *)
(* ReadString has returned, builder the strings.Builder.                   *)
(***************************************************************************)
MaxPieces == 3       \* pieces a stream is made of

\* The bytes of delimiter.
DelimiterBytes ==
    <<"<", "?", "?", "?", "D", "O", "N", "E", "?", "?", "?", "-", "-", "-">>

\* What streams are made of: a letter, a dash, a blank, the sentinel, and the
\* two halves of a sentinel cut in the middle.
Pieces == {<<"a">>, <<"-">>, <<" ">>, DelimiterBytes,
           SubSeq(DelimiterBytes, 1, 8), SubSeq(DelimiterBytes, 9, 14)}

RECURSIVE Streams(_)
Streams(n) ==
    IF n = 0 THEN {<<>>}
    ELSE LET S == Streams(n - 1) IN S \cup {s \o p : s \in S, p \in Pieces}

\* json.Marshal of a Message: an object, with inner between its braces.
Marshal(inner) == <<"{">> \o inner \o <<"}">>

\* A frame with a line feed between the body and the sentinel.
FrameWithSeparator(data) == data \o <<"\n">> \o DelimiterBytes

\* sendJSONMessage: data = append(data, []byte(delimiter)...); conn.Write(data).
Frame(data) == data \o DelimiterBytes

\* strings.Contains(s, d).
Contains(s, d) ==
    \E i \in 0..(Len(s) - Len(d)) : SubSeq(s, i + 1, i + Len(d)) = d

\* A replacement that stops after the first occurrence.
RECURSIVE ReplaceFirst(_, _)
ReplaceFirst(s, d) ==
    IF Len(s) < Len(d) THEN s
    ELSE IF SubSeq(s, 1, Len(d)) = d THEN SubSeq(s, Len(d) + 1, Len(s))
    ELSE <<Head(s)>> \o ReplaceFirst(Tail(s), d)

\* strings.ReplaceAll(s, d, ""): one pass from the left, each occurrence found
\* is dropped and the scan goes on after it.
RECURSIVE ReplaceAll(_, _)
ReplaceAll(s, d) ==
    IF Len(s) < Len(d) THEN s
    ELSE IF SubSeq(s, 1, Len(d)) = d
    THEN ReplaceAll(SubSeq(s, Len(d) + 1, Len(s)), d)
    ELSE <<Head(s)>> \o ReplaceAll(Tail(s), d)

\* strings.TrimSpace(s).
IsSpace(c) == c \in {" ", "\t", "\n", "\r"}
RECURSIVE TrimLeft(_)
TrimLeft(s) ==
    IF s # <<>> /\ IsSpace(Head(s)) THEN TrimLeft(Tail(s)) ELSE s
RECURSIVE TrimRight(_)
TrimRight(s) ==
    IF s # <<>> /\ IsSpace(s[Len(s)]) THEN TrimRight(SubSeq(s, 1, Len(s) - 1))
    ELSE s
TrimSpace(s) == TrimRight(TrimLeft(s))

NewDecode(stream, framed, body) ==
    [fn |-> "readResponse", stream |-> stream, framed |-> framed, body |-> body,
     got |-> 0, reads |-> "none", used |-> 0, builder |-> <<>>, pc |-> "read",
     text |-> <<>>, err |-> ""]

DecodeInit ==
    /\ SessionIdle
    /\ globalCubeLinks = <<>>
    /\ \E inner \in Streams(MaxPieces), framed \in BOOLEAN :
          call = IF framed
                 THEN NewDecode(Frame(Marshal(inner)), TRUE, Marshal(inner))
                 ELSE NewDecode(inner, FALSE, <<>>)

Decoding == call.fn = "readResponse" /\ call.pc = "read"

\* The bytes the bufio.Reader holds and ReadString has not returned yet.
Buffered == SubSeq(call.stream, call.used + 1, call.got)
HasDash(s) == \E i \in DOMAIN s : s[i] = "-"

\* A read that returns everything the reader holds.
LineOfWholeBuffer(buf) == buf

\* A read that returns the bytes up to the end of the first sentinel when the
\* reader holds one.
LineOfThroughSentinel(buf) ==
    LET E == {i \in DOMAIN buf :
                 /\ buf[i] = "-"
                 /\ \/ \A j \in 1..(i - 1) : buf[j] # "-"
                    \/ /\ i >= Len(DelimiterBytes)
                       /\ SubSeq(buf, i - Len(DelimiterBytes) + 1, i)
                             = DelimiterBytes}
    IN  SubSeq(buf, 1, CHOOSE i \in E : \A j \in E : j <= i)

\* reader.ReadString('-') without error: the bytes up to and including the
\* first '-'.
LineOf(buf) ==
    SubSeq(buf, 1, CHOOSE i \in DOMAIN buf :
                       buf[i] = "-" /\ \A j \in 1..(i - 1) : buf[j] # "-")

\* The statements after the loop.
Finish(c, outcome) ==
    [c EXCEPT !.pc = "done",
              !.text = TrimSpace(ReplaceAll(c.builder, DelimiterBytes)),
              !.err = ReadErr(outcome)]

\* conn.Read hands the next n bytes of the stream to the reader; ReadString
\* asks for them only when it holds no '-'.
ConnRead ==
    /\ Decoding /\ ~HasDash(Buffered)
    /\ \E n \in 1..(Len(call.stream) - call.got) :
          call' = [call EXCEPT !.got = @ + n,
                               !.reads = IF @ = "none" THEN "one" ELSE "several"]
    /\ UNCHANGED <<sessionVars, globalCubeLinks>>

\* line, err := reader.ReadString('-') with err == nil, and the loop body.
ReadString ==
    /\ Decoding /\ HasDash(Buffered)
    /\ LET line == LineOf(Buffered)
           c == [call EXCEPT !.builder = @ \o line, !.used = @ + Len(line)]
       IN  call' = IF Contains(line, DelimiterBytes) THEN Finish(c, "text") ELSE c
    /\ UNCHANGED <<sessionVars, globalCubeLinks>>

\* ReadString returns an error (the deadline has passed, or the stream ended
\* or failed) together with the bytes it holds, which the loop drops: break.
ReadStringError ==
    /\ Decoding /\ ~HasDash(Buffered)
    /\ \E outcome \in {"deadline", "error"} : call' = Finish(call, outcome)
    /\ UNCHANGED <<sessionVars, globalCubeLinks>>

DecodeNext == ConnRead \/ ReadString \/ ReadStringError

DecodeSpec == DecodeInit /\ [][DecodeNext]_vars

(***************************************************************************)
(* Decode cycles one after another on one connection, as the               *)
(* single-connection stiffen variants run them: the authentication read,   *)
(* then one read for every set_joint_param.  from is the number of bytes   *)
(* conn.Read had handed out when the cycle's bufio.Reader was made, past   *)
(* the cycles that have returned.                                          *)
(***************************************************************************)
MaxCycles == 2       \* decode cycles on the connection
MaxReplyPieces == 4  \* bytes the peer sends on a reused connection

\* What the peer sends on a reused connection: letters, dashes and blanks.
ReplyPieces == {<<"a">>, <<"-">>, <<" ">>}

RECURSIVE ReplyStreams(_)
ReplyStreams(n) ==
    IF n = 0 THEN {<<>>}
    ELSE LET S == ReplyStreams(n - 1)
         IN  S \cup {s \o p : s \in S, p \in ReplyPieces}

\* A reader that outlives its cycle and starts the next one with the bytes it
\* still holds.
ReaderStartAtUnread(c) == c.used

\* reader := bufio.NewReader(conn): the new reader holds nothing, and reads
\* on from where conn.Read stopped.
ReaderStart(c) == c.got

ReuseInit ==
    /\ SessionIdle
    /\ globalCubeLinks = <<>>
    /\ \E stream \in ReplyStreams(MaxReplyPieces) :
          call = NewDecode(stream, FALSE, <<>>) @@ [from |-> 0, past |-> <<>>]

\* The caller's next readResponse(conn) on the same connection.
NextCycle ==
    /\ call.fn = "readResponse" /\ call.pc = "done"
    /\ Len(call.past) + 1 < MaxCycles
    /\ call' = [call EXCEPT !.pc = "read",
                            !.from = ReaderStart(call),
                            !.used = ReaderStart(call),
                            !.reads = "none",
                            !.builder = <<>>,
                            !.text = <<>>,
                            !.err = "",
                            !.past = Append(@, [from |-> call.from,
                                                used |-> call.used,
                                                got |-> call.got,
                                                text |-> call.text])]
    /\ UNCHANGED <<sessionVars, globalCubeLinks>>

ReuseNext == ConnRead \/ ReadString \/ ReadStringError \/ NextCycle

ReuseSpec == ReuseInit /\ [][ReuseNext]_vars

(***************************************************************************)
(* sendJSONMessage, byte by byte.  A message is a map with a string value  *)
(* and a boolean value; json.Marshal writes its keys in sorted order.      *)
(***************************************************************************)
MaxTextPieces == 2   \* pieces a string value of a message is made of

\* What string values are made of: a letter, the characters json.Marshal
\* escapes, a dash and the sentinel.
TextPieces == {<<"a">>, <<"<">>, <<"\"">>, <<"\\">>, <<"-">>, DelimiterBytes}

RECURSIVE Texts(_)
Texts(n) ==
    IF n = 0 THEN {<<>>}
    ELSE LET S == Texts(n - 1) IN S \cup {s \o p : s \in S, p \in TextPieces}

\* An encoder after SetEscapeHTML(false): '<', '>' and '&' are written as
\* they are.
EscapeQuotesOnly(c) ==
    CASE c = "\"" -> <<"\\", "\"">>
      [] c = "\\" -> <<"\\", "\\">>
      [] OTHER -> <<c>>

\* encoding/json, string encoding: '"' and '\' get a backslash, and '<', '>'
\* and '&' are written as \u003c, \u003e and \u0026 (json.Marshal escapes
\* HTML characters).
EscapeChar(c) ==
    CASE c = "\"" -> <<"\\", "\"">>
      [] c = "\\" -> <<"\\", "\\">>
      [] c = "<" -> <<"\\", "u", "0", "0", "3", "c">>
      [] c = ">" -> <<"\\", "u", "0", "0", "3", "e">>
      [] c = "&" -> <<"\\", "u", "0", "0", "2", "6">>
      [] OTHER -> <<c>>

RECURSIVE Escape(_)
Escape(s) == IF s = <<>> THEN <<>> ELSE EscapeChar(Head(s)) \o Escape(Tail(s))

\* A JSON string, and the JSON literal of a boolean.
JsonString(s) == <<"\"">> \o Escape(s) \o <<"\"">>
JsonBool(b) == IF b THEN <<"t", "r", "u", "e">> ELSE <<"f", "a", "l", "s", "e">>

\* json.Marshal(msg) for msg = Message{"cube_name": ..., "freeze": ...}.
MarshalMessage(msg) ==
    <<"{">> \o JsonString(<<"c", "u", "b", "e", "_", "n", "a", "m", "e">>)
            \o <<":">> \o JsonString(msg.cube_name) \o <<",">>
            \o JsonString(<<"f", "r", "e", "e", "z", "e">>)
            \o <<":">> \o JsonBool(msg.freeze) \o <<"}">>

EncodeInit ==
    /\ SessionIdle
    /\ globalCubeLinks = <<>>
    /\ \E name \in Texts(MaxTextPieces), freeze \in BOOLEAN :
          call = [fn |-> "sendJSONMessage",
                  msg |-> [cube_name |-> name, freeze |-> freeze],
                  pc |-> "marshal", data |-> <<>>, written |-> <<>>,
                  err |-> ""]

Encoding(pc) == call.fn = "sendJSONMessage" /\ call.pc = pc

\* data, err := json.Marshal(msg); a map of strings and booleans always
\* encodes.
EncodeMarshal ==
    /\ Encoding("marshal")
    /\ call' = [call EXCEPT !.pc = "append", !.data = MarshalMessage(call.msg)]
    /\ UNCHANGED <<sessionVars, globalCubeLinks>>

\* data = append(data, []byte(delimiter)...)
EncodeAppend ==
    /\ Encoding("append")
    /\ call' = [call EXCEPT !.pc = "write", !.data = Frame(@)]
    /\ UNCHANGED <<sessionVars, globalCubeLinks>>

\* _, err = conn.Write(data); return err
EncodeWrite ==
    /\ Encoding("write")
    /\ \E ok \in BOOLEAN :
          call' = [call EXCEPT !.pc = "done",
                               !.written = IF ok THEN call.data ELSE <<>>,
                               !.err = IF ok THEN "" ELSE "write"]
    /\ UNCHANGED <<sessionVars, globalCubeLinks>>

EncodeNext == EncodeMarshal \/ EncodeAppend \/ EncodeWrite

EncodeSpec == EncodeInit /\ [][EncodeNext]_vars

(***************************************************************************)
(* The recording loop of linkCubeChains, for any chains and joint type.    *)
(* c is the position of the outer loop, i the inner loop variable, before  *)
(* the link registry when the function was entered.                        *)
(***************************************************************************)
MaxChains == 2       \* chains passed to linkCubeChains
MaxChainLen == 3     \* names in a chain

ChainCubes == <<"tail1_BASE", "tail2_BASE", "tail3_BASE", "body17_BASE",
                "head1_BASE">>
JointTypes == {"hinge", "fixed"}

\* The chains of at most MaxChainLen names: the runs of ChainCubes.
ChainSet ==
    {SubSeq(ChainCubes, w[1], w[1] + w[2] - 1) :
        w \in {v \in (1..Len(ChainCubes)) \X (0..MaxChainLen) :
                  v[1] + v[2] - 1 <= Len(ChainCubes)}}
ChainInputs == UNION {[1..n -> ChainSet] : n \in 0..MaxChains}

\* A link recorded before the call.
EarlierLink == [JointName |-> "tail_joint1", CubeA |-> "tail1_BASE",
                CubeB |-> "tail2_BASE"]

\* A link with its two cubes exchanged.
ChainLinkReversed(jointType, cubeA, cubeB) ==
    [JointName |-> "joint_" \o jointType \o "_" \o cubeA \o "_" \o cubeB,
     CubeA |-> cubeB, CubeB |-> cubeA]

\* CubeLink{JointName: fmt.Sprintf("joint_%s_%s_%s", jointType, cubeA, cubeB),
\*          CubeA: cubeA, CubeB: cubeB}
ChainLink(jointType, cubeA, cubeB) ==
    [JointName |-> "joint_" \o jointType \o "_" \o cubeA \o "_" \o cubeB,
     CubeA |-> cubeA, CubeB |-> cubeB]

ChainInit ==
    /\ SessionIdle
    /\ globalCubeLinks \in {<<>>, <<EarlierLink>>}
    /\ \E cs \in ChainInputs, jt \in JointTypes :
          call = [fn |-> "linkCubeChains", chains |-> cs, jointType |-> jt,
                  pc |-> "lock", c |-> 1, i |-> 0, before |-> globalCubeLinks]

Chaining(pc) == call.fn = "linkCubeChains" /\ call.pc = pc

\* linkListMutex.Lock(); defer linkListMutex.Unlock()
ChainsLock ==
    /\ Chaining("lock") /\ CanLock(linkListMutex)
    /\ linkListMutex' = {0}
    /\ call' = [call EXCEPT !.pc = "loop"]
    /\ UNCHANGED <<prog, ip, mpc, iter, wg, th, globalCubeList,
                   globalCubeLinks, cubeListMutex, exited>>

\* One pass of the inner loop: i < len(chain)-1, append, i++.
RecordLink ==
    /\ Chaining("loop") /\ call.c <= Len(call.chains)
    /\ call.i < Len(call.chains[call.c]) - 1
    /\ LET chain == call.chains[call.c] IN
       globalCubeLinks' =
          Append(globalCubeLinks,
                 ChainLink(call.jointType, chain[call.i + 1], chain[call.i + 2]))
    /\ call' = [call EXCEPT !.i = @ + 1]
    /\ UNCHANGED sessionVars

\* The inner loop ends: the outer loop takes the next chain.
NextChain ==
    /\ Chaining("loop") /\ call.c <= Len(call.chains)
    /\ ~(call.i < Len(call.chains[call.c]) - 1)
    /\ call' = [call EXCEPT !.c = @ + 1, !.i = 0]
    /\ UNCHANGED <<sessionVars, globalCubeLinks>>

\* return nil, which runs the deferred Unlock.
ChainsReturn ==
    /\ Chaining("loop") /\ call.c > Len(call.chains)
    /\ linkListMutex' = {}
    /\ call' = [call EXCEPT !.pc = "done"]
    /\ UNCHANGED <<prog, ip, mpc, iter, wg, th, globalCubeList,
                   globalCubeLinks, cubeListMutex, exited>>

ChainNext == ChainsLock \/ RecordLink \/ NextChain \/ ChainsReturn

ChainSpec == ChainInit /\ [][ChainNext]_vars

(***************************************************************************)
(* findClosestJoint, for any link registry and target cube.  i is the      *)
(* position of the range loop.                                             *)
(***************************************************************************)
MaxLinks == 2        \* links in the registry when findClosestJoint is called

LookupCubes == {"tail1_BASE", "tail2_BASE", "tail3_BASE"}
LookupJoints == <<"tail_joint1", "tail_joint2", "tail_joint3", "tail_joint4">>

\* The registries of n links, the k-th named LookupJoints[k].
LinkLists(n) ==
    {[k \in 1..n |-> [JointName |-> LookupJoints[k], CubeA |-> f[k][1],
                      CubeB |-> f[k][2]]] :
        f \in [1..n -> LookupCubes \X LookupCubes]}

LookupInit ==
    /\ SessionIdle
    /\ globalCubeLinks \in UNION {LinkLists(n) : n \in 0..MaxLinks}
    /\ \E x \in LookupCubes \cup {"head1_BASE"} :
          call = [fn |-> "findClosestJoint", targetCube |-> x, pc |-> "lock",
                  i |-> 1, result |-> ""]

Looking(pc) == call.fn = "findClosestJoint" /\ call.pc = pc

\* A test that looks at the first cube of a link only.
TouchesFirstCube(link, cube) == link.CubeA = cube

\* link.CubeA == targetCube || link.CubeB == targetCube
Touches(link, cube) == link.CubeA = cube \/ link.CubeB = cube

\* linkListMutex.Lock(); defer linkListMutex.Unlock()
LookupLock ==
    /\ Looking("lock") /\ CanLock(linkListMutex)
    /\ linkListMutex' = {0}
    /\ call' = [call EXCEPT !.pc = "scan"]
    /\ UNCHANGED <<prog, ip, mpc, iter, wg, th, globalCubeList,
                   globalCubeLinks, cubeListMutex, exited>>

\* A return from inside the loop that leaves the lock held.
ScanMatchKeepingLock ==
    /\ Looking("scan") /\ call.i <= Len(globalCubeLinks)
    /\ Touches(globalCubeLinks[call.i], call.targetCube)
    /\ call' = [call EXCEPT !.pc = "done",
                            !.result = globalCubeLinks[call.i].JointName]
    /\ UNCHANGED <<sessionVars, globalCubeLinks>>

\* The loop body finds that the link touches the target: return its name.
ScanMatch ==
    /\ Looking("scan") /\ call.i <= Len(globalCubeLinks)
    /\ Touches(globalCubeLinks[call.i], call.targetCube)
    /\ linkListMutex' = {}
    /\ call' = [call EXCEPT !.pc = "done",
                            !.result = globalCubeLinks[call.i].JointName]
    /\ UNCHANGED <<prog, ip, mpc, iter, wg, th, globalCubeList,
                   globalCubeLinks, cubeListMutex, exited>>

\* The link does not touch the target: the loop goes to the next link.
ScanSkip ==
    /\ Looking("scan") /\ call.i <= Len(globalCubeLinks)
    /\ ~Touches(globalCubeLinks[call.i], call.targetCube)
    /\ call' = [call EXCEPT !.i = @ + 1]
    /\ UNCHANGED <<sessionVars, globalCubeLinks>>

\* The loop is over: return "".
ScanEnd ==
    /\ Looking("scan") /\ call.i > Len(globalCubeLinks)
    /\ linkListMutex' = {}
    /\ call' = [call EXCEPT !.pc = "done", !.result = ""]
    /\ UNCHANGED <<prog, ip, mpc, iter, wg, th, globalCubeList,
                   globalCubeLinks, cubeListMutex, exited>>

LookupNext == LookupLock \/ ScanMatch \/ ScanSkip \/ ScanEnd

LookupSpec == LookupInit /\ [][LookupNext]_vars

(***************************************************************************)
(* rotateAllJointsForCube(targetCube), which no main calls: for every link *)
(* of the registry that touches the target, one connection that carries    *)
(* the authentication and five set_joint_param commands.  i is the loop    *)
(* position, left the parameters still to set on the open connection,      *)
(* opened and closed count the dials that succeeded and the conn.Close     *)
(* calls.                                                                  *)
(***************************************************************************)
\* The parameters of the setJointParam calls of one loop body, in order.
RotateAllParams ==
    <<"motor_enable", "motor_target_velocity", "motor_max_impulse",
      "motor_target_velocity", "motor_target_velocity">>

RotateAllInit ==
    /\ SessionIdle
    /\ globalCubeLinks \in UNION {LinkLists(n) : n \in 0..MaxLinks}
    /\ \E x \in LookupCubes :
          call = [fn |-> "rotateAllJointsForCube", targetCube |-> x,
                  pc |-> "loop", i |-> 1, conn |-> "none", left |-> <<>>,
                  opened |-> 0, closed |-> 0]

RotatingAll(pc) == call.fn = "rotateAllJointsForCube" /\ call.pc = pc

\* The range is exhausted: the function returns.
RotateAllEnd ==
    /\ RotatingAll("loop") /\ call.i > Len(globalCubeLinks)
    /\ call' = [call EXCEPT !.pc = "done"]
    /\ UNCHANGED <<sessionVars, globalCubeLinks>>

\* The link does not touch the target.
RotateAllSkip ==
    /\ RotatingAll("loop") /\ call.i <= Len(globalCubeLinks)
    /\ ~Touches(globalCubeLinks[call.i], call.targetCube)
    /\ call' = [call EXCEPT !.i = @ + 1]
    /\ UNCHANGED <<sessionVars, globalCubeLinks>>

\* net.Dial; on failure `continue'.
RotateAllDial ==
    /\ RotatingAll("loop") /\ call.i <= Len(globalCubeLinks)
    /\ Touches(globalCubeLinks[call.i], call.targetCube)
    /\ \E ok \in BOOLEAN :
          call' = IF ok
                  THEN [call EXCEPT !.pc = "auth", !.conn = "open",
                                    !.opened = @ + 1]
                  ELSE [call EXCEPT !.i = @ + 1]
    /\ UNCHANGED <<sessionVars, globalCubeLinks>>

\* conn.Write of the password; on failure conn.Close() and `continue'.  On
\* success the response is read and dropped.
RotateAllAuth ==
    /\ RotatingAll("auth")
    /\ \E ok \in BOOLEAN :
          call' = IF ok
                  THEN [call EXCEPT !.pc = "work", !.left = RotateAllParams]
                  ELSE [call EXCEPT !.pc = "loop", !.i = @ + 1,
                                    !.conn = "closed", !.closed = @ + 1]
    /\ UNCHANGED <<sessionVars, globalCubeLinks>>

\* One setJointParam call (and the sleep after it, if any); its result is
\* dropped.
RotateAllCommand ==
    /\ RotatingAll("work") /\ call.left # <<>>
    /\ call' = [call EXCEPT !.left = Tail(@)]
    /\ UNCHANGED <<sessionVars, globalCubeLinks>>

\* conn.Close() at the end of the loop body.
RotateAllClose ==
    /\ RotatingAll("work") /\ call.left = <<>>
    /\ call' = [call EXCEPT !.pc = "loop", !.i = @ + 1, !.conn = "closed",
                            !.closed = @ + 1]
    /\ UNCHANGED <<sessionVars, globalCubeLinks>>

RotateAllNext ==
    \/ RotateAllEnd \/ RotateAllSkip \/ RotateAllDial \/ RotateAllAuth
    \/ RotateAllCommand \/ RotateAllClose

\* Every function that opens a connection: the three mains, and
\* rotateAllJointsForCube called on its own.
ConnectionsInit == Init \/ RotateAllInit

ConnectionsNext == (call = NoCall /\ Next) \/ RotateAllNext

ConnectionsSpec == ConnectionsInit /\ [][ConnectionsNext]_vars

\* readResponse together with its callers: a session, or a decode cycle seen
\* byte by byte.
CallersInit == Init \/ DecodeInit

CallersNext == (call = NoCall /\ Next) \/ DecodeNext

CallersSpec == CallersInit /\ [][CallersNext]_vars

\* Every function that starts goroutines: the three mains, the stiffening
\* functions over a registry with links, rotateCubeJoints with two joints.
GoroutinesInit == Init \/ StrategyInit \/ RotateInit

GoroutinesSpec == GoroutinesInit /\ [][Next]_vars

\* Every place that takes a registry lock: the sessions (spawnCube, linkCubes,
\* linkCubeChains) and findClosestJoint.
LocksInit == Init \/ LookupInit

LocksNext == (call = NoCall /\ Next) \/ LookupNext

LocksSpec == LocksInit /\ [][LocksNext]_vars

(***************************************************************************)
(* Vocabulary of the properties.                                           *)
(***************************************************************************)
IsPrefix(a, b) == Len(a) <= Len(b) /\ SubSeq(b, 1, Len(a)) = a
Elems(seq) == {seq[i] : i \in DOMAIN seq}
Occurrences(seq, x) == Cardinality({i \in DOMAIN seq : seq[i] = x})
IsJson(frame) == "json" \in DOMAIN frame
AtOp(op) == ip <= Len(Script) /\ Script[ip].op = op
AllUnitsDone == \A t \in UnitIds : th[t].pc = "done"
BarrierReady == mpc = "wait" /\ wg = 0

\* Index of the last statement of the script whose op is in ops (0 if none).
LastIx(ops) ==
    LET S == {i \in 1..Len(Script) : Script[i].op \in ops} IN
    IF S = {} THEN 0 ELSE CHOOSE i \in S : \A j \in S : j <= i

\* Thread t writes a frame in this step.
WroteNow(t) ==
    t \in DOMAIN th' /\ Len(th'[t].sent) = Len(th[t].sent) + 1
NewFrame(t) == th'[t].sent[Len(th'[t].sent)]
WroteCommand(types) ==
    \E t \in DOMAIN th :
        WroteNow(t) /\ IsJson(NewFrame(t)) /\ NewFrame(t).json.type \in types
WroteRelease ==
    \E t \in DOMAIN th :
        /\ WroteNow(t) /\ IsJson(NewFrame(t))
        /\ NewFrame(t).json.type = "freeze_cube" /\ ~NewFrame(t).json.freeze

LinkOps == {"linkCubes", "testLink", "chains"}
StiffenOps == {"stiffen", "bulk", "singleConn", "singleThreaded"}
LinkTypes == {"create_joint", "link_body_cubes", "link_cube_chains"}
StiffenTypes == {"set_joint_param", "set_joint_params"}

(***************************************************************************)
(* C1.  Barrier safety: wg.Wait of a batch returns only in a state where   *)
(* every one of the N units the batch started is terminal (its connection, *)
(* if any, closed), whichever units failed; N is the length of the list    *)
(* the batch ranges over.                                                  *)
(***************************************************************************)
BarrierSafety ==
    [][(mpc = "wait" /\ mpc' # "wait") =>
          /\ Cardinality({t \in UnitIds : th[t].pc = "done"})
                = Len(BatchItems(Script[ip].op))
          /\ \A t \in UnitIds : th[t].pc = "done" /\ th[t].conn # "open"]_vars

\* A barrier about to return with a unit that failed and one that succeeded.
BarrierSafetyWitness ==
    /\ BarrierReady /\ AllUnitsDone
    /\ \E t, u \in UnitIds : th[t].err # "" /\ th[u].err = "" /\ th[u].conn = "closed"

(***************************************************************************)
(* C2.  Barrier liveness: if dial, write and read calls return (every      *)
(* decode cycle ends at its deadline), every unit of a batch eventually    *)
(* terminates and wg.Wait eventually returns.                              *)
(***************************************************************************)
BarrierLiveness ==
    /\ (mpc \in {"launch", "wait"}) ~> (BarrierReady /\ AllUnitsDone)
    /\ (mpc = "wait") ~> (mpc = "start")

\* The last barrier of a session has returned although units had to wait for
\* decode cycles.
BarrierLivenessWitness ==
    /\ exited
    /\ globalCubeList # <<>>

(***************************************************************************)
(* C3.  Phase ordering: a link-creation command is written only after the  *)
(* spawn batch has returned, a stiffen command only after the last         *)
(* link-creation call has returned, a release command only after the last  *)
(* stiffen batch has returned, a despawn command only after the release    *)
(* batch has returned.                                                     *)
(***************************************************************************)
PhaseOrdering ==
    [][/\ WroteCommand(LinkTypes) => ip > LastIx({"spawn"})
       /\ WroteCommand(StiffenTypes) => ip > LastIx(LinkOps)
       /\ WroteRelease => ip > LastIx(StiffenOps)
       /\ WroteCommand({"despawn_cube"}) => ip > LastIx({"unfreeze"})]_vars

\* A session in which links were recorded and stiffened has reached teardown.
PhaseOrderingWitness ==
    /\ prog = "stiffen" /\ AtOp("despawn")
    /\ Len(globalCubeLinks) = 2
    /\ \E t \in UnitIds : th[t].kind = "despawn" /\ Len(th[t].sent) = 2

(***************************************************************************)
(* C4.  Cross-phase barrier including actuate: the teardown batch starts   *)
(* only after every actuation cycle started by rotateCubeJoints has        *)
(* terminated.  (The code starts the cycles with `go' and never joins.)    *)
(***************************************************************************)
CrossPhaseBarrier ==
    (AtOp("despawn") /\ mpc \in {"launch", "wait"})
        => \A t \in CycleIds : th[t].pc = "done"

(***************************************************************************)
(* C5.  Registry no-loss / no-duplication: once every spawn unit is        *)
(* terminal the entity registry holds exactly one entry per unit that      *)
(* appended, and a link helper that has returned without error has each of *)
(* its links in the link registry exactly once.                            *)
(***************************************************************************)
Appended(t) == th[t].kind = "spawn" /\ th[t].pc = "done" /\ th[t].err = ""

RegistryNoLoss ==
    /\ (AtOp("spawn") /\ BarrierReady /\ AllUnitsDone) =>
          /\ Len(globalCubeList) = Cardinality({t \in UnitIds : Appended(t)})
          /\ \A t \in UnitIds :
                Appended(t) => Occurrences(globalCubeList, th[t].arg \o "_BASE") = 1
    /\ \A t \in DOMAIN th :
          (th[t].pc = "ret" /\ th[t].err = "") =>
             CASE th[t].kind = "linkCubes" ->
                     Occurrences(globalCubeLinks, Item(th[t])) = 1
               [] th[t].kind = "chains" ->
                     /\ Len(globalCubeLinks) = Len(ChainPairs(th[t].arg))
                     /\ \A i \in DOMAIN globalCubeLinks :
                           /\ globalCubeLinks[i].CubeA = ChainPairs(th[t].arg)[i][1]
                           /\ globalCubeLinks[i].CubeB = ChainPairs(th[t].arg)[i][2]
               [] OTHER -> TRUE

\* Two spawn units appended concurrently and both entries are there.
RegistryNoLossWitness ==
    /\ AtOp("spawn") /\ BarrierReady
    /\ Cardinality({t \in UnitIds : Appended(t)}) >= 2
    /\ Len(globalCubeList) >= 2

(***************************************************************************)
(* C6.  Registry monotonicity: in every step the old contents of each      *)
(* registry are a prefix of the new contents.                              *)
(***************************************************************************)
RegistryMonotone ==
    [][/\ IsPrefix(globalCubeList, globalCubeList')
       /\ IsPrefix(globalCubeLinks, globalCubeLinks')]_vars

\* A cube has been despawned and its entry is still in the registry.
RegistryMonotoneWitness ==
    \E t \in UnitIds :
        /\ th[t].kind = "despawn" /\ th[t].pc = "done" /\ Len(th[t].sent) = 2
        /\ th[t].arg \in Elems(globalCubeList)
        /\ Len(globalCubeList) >= 2

(***************************************************************************)
(* C7.  As claimed: spawnCube appends name_BASE only after the spawn       *)
(* command has been written and the decode cycle of its response has       *)
(* completed (the last operation on the connection), holding the lock.     *)
(***************************************************************************)
SpawnAppendAfterRoundTrip ==
    \A t \in UnitIds :
        (th[t].kind = "spawn" /\ th[t].pc \in {"append", "store", "unlock"}) =>
           /\ t \in cubeListMutex
           /\ th[t].sent = <<AuthFrame, sendJSONMessage(SpawnMessage(th[t].arg))>>
           /\ th[t].last = "read"

(***************************************************************************)
(* C7, amended.  Every change of the entity registry is the append of      *)
(* name_BASE by a spawn unit that holds cubeListMutex, has completed the   *)
(* authentication decode cycle and has written its spawn command with      *)
(* success; no decode cycle follows the spawn command.                     *)
(***************************************************************************)
SpawnAppendAfterWrite ==
    [][globalCubeList' # globalCubeList =>
          \E t \in UnitIds :
             /\ th[t].kind = "spawn" /\ th[t].pc = "store" /\ th[t].err = ""
             /\ cubeListMutex = {t}
             /\ th[t].sent = <<AuthFrame, sendJSONMessage(SpawnMessage(th[t].arg))>>
             /\ th[t].last = "write"
             /\ globalCubeList' = Append(globalCubeList, th[t].arg \o "_BASE")]_vars

\* A spawn unit has appended its remote name and still holds the lock.
SpawnAppendWitness ==
    \E t \in UnitIds :
        /\ th[t].kind = "spawn" /\ th[t].pc = "unlock" /\ t \in cubeListMutex
        /\ globalCubeList[Len(globalCubeList)] = th[t].arg \o "_BASE"

(***************************************************************************)
(* C8.  No recording on failure: a spawn unit whose dial, auth write or    *)
(* command write failed has no entry in the entity registry, and a         *)
(* linkCubes or linkCubeChains call that failed has none of its links in   *)
(* the link registry.                                                      *)
(***************************************************************************)
NoRecordingOnFailure ==
    \A t \in DOMAIN th :
        th[t].err # "" =>
           CASE th[t].kind = "spawn" ->
                   /\ th[t].arg \o "_BASE" \notin Elems(globalCubeList)
                   /\ th[t].pc \in {"close", "wgdone", "done"}
             [] th[t].kind = "linkCubes" ->
                   \A i \in DOMAIN globalCubeLinks :
                       globalCubeLinks[i].JointName # th[t].arg.jointName
             [] th[t].kind = "chains" -> globalCubeLinks = <<>>
             [] OTHER -> TRUE

\* A spawn unit failed at its command write while another unit was recorded,
\* or the second linkCubes call failed after the first was recorded.
NoRecordingOnFailureWitness ==
    \/ /\ \E t \in UnitIds :
             th[t].kind = "spawn" /\ th[t].err = "cmd" /\ th[t].pc = "done"
       /\ globalCubeList # <<>>
       /\ BarrierReady
    \/ /\ 0 \in DOMAIN th /\ th[0].kind = "linkCubes"
       /\ th[0].err = "cmd" /\ th[0].pc = "ret"
       /\ globalCubeLinks # <<>>

(***************************************************************************)
(* C9.  Teardown covers the creation log: despawnAllCubes starts exactly   *)
(* one unit per entry of the entity registry, unit i naming entry i, and a *)
(* despawn_cube command is only ever written by such a unit, once, for its *)
(* entry.                                                                  *)
(***************************************************************************)
DespawnFrames(t) ==
    {i \in DOMAIN th[t].sent :
        IsJson(th[t].sent[i]) /\ th[t].sent[i].json.type = "despawn_cube"}

TeardownCoversRegistry ==
    /\ (AtOp("despawn") /\ mpc = "wait") =>
          /\ UnitIds = 1..Len(globalCubeList)
          /\ \A i \in UnitIds :
                th[i].kind = "despawn" /\ th[i].arg = globalCubeList[i]
    /\ \A t \in DOMAIN th :
          /\ Cardinality(DespawnFrames(t)) <= 1
          /\ \A i \in DespawnFrames(t) :
                /\ AtOp("despawn") /\ t \in 1..Len(globalCubeList)
                /\ th[t].sent[i] = sendJSONMessage(DespawnMessage(globalCubeList[t]))

\* Every entry of a registry of two or more has had its despawn written.
TeardownWitness ==
    /\ AtOp("despawn") /\ BarrierReady
    /\ Len(globalCubeList) >= 2
    /\ \A t \in UnitIds : DespawnFrames(t) # {}

(***************************************************************************)
(* C10.  Release covers every registered entity: unfreezeAllCubes starts   *)
(* exactly one unit per entry, and a unit that connected and authenticated *)
(* writes exactly the frames auth, freeze_cube(entry, freeze = false).     *)
(***************************************************************************)
ReleaseCoversRegistry ==
    AtOp("unfreeze") =>
       /\ mpc = "wait" => UnitIds = 1..Len(globalCubeList)
       /\ \A t \in UnitIds :
             /\ th[t].kind = "unfreeze"
             /\ t <= Len(globalCubeList) /\ th[t].arg = globalCubeList[t]
             /\ (th[t].pc \in {"close", "wgdone", "done"} /\ th[t].err = "") =>
                   th[t].sent = <<AuthFrame,
                                  sendJSONMessage([type |-> "freeze_cube",
                                                   cube_name |-> globalCubeList[t],
                                                   freeze |-> FALSE])>>

\* Two registered cubes have both been released.
ReleaseWitness ==
    /\ AtOp("unfreeze") /\ BarrierReady
    /\ Len(globalCubeList) >= 2
    /\ \A t \in UnitIds : th[t].err = "" /\ Len(th[t].sent) = 2

(***************************************************************************)
(* C11.  Authentication comes first: on every connection the first frame   *)
(* written is the password immediately followed by the sentinel, every     *)
(* command frame comes after it, and the first command is written only     *)
(* when the last operation on the connection was a decode cycle.           *)
(***************************************************************************)
AuthenticationFirst ==
    [][\A t \in DOMAIN th' :
          LET s == th'[t].sent IN
          /\ s # <<>> => s[1] = [raw |-> authPass \o delimiter]
          /\ \A i \in DOMAIN s : IsJson(s[i]) => i > 1
          /\ (t \in DOMAIN th /\ WroteNow(t) /\ IsJson(NewFrame(t))
                /\ Len(th[t].sent) = 1) => th[t].last = "read"]_vars

\* An actuation goroutine, which ignores the result of its auth write, has
\* written its three commands.
AuthenticationFirstWitness ==
    \E t \in CycleIds : th[t].pc = "done" /\ Len(th[t].sent) = 4

(***************************************************************************)
(* C12.  The authentication response is never validated: whatever its      *)
(* decode cycle yields, a unit leaves the authentication read without an   *)
(* error and goes on to its command (or, for a single-connection stiffen   *)
(* with no joint to stiffen, to its normal return).                        *)
(***************************************************************************)
AuthResponseNotValidated ==
    [][\A t \in DOMAIN th :
          (th[t].pc = "authRead" /\ t \in DOMAIN th' /\ th'[t] # th[t]) =>
             /\ th'[t].err = ""
             /\ \/ th'[t].pc = "cmd"
                \/ /\ th[t].kind \in {"singleConn", "singleThreaded"}
                   /\ th[t].queue = <<>> /\ th'[t].pc = "close"]_vars

\* A colour unit, whose code tests the error of the authentication read, has
\* written its command.
AuthResponseNotValidatedWitness ==
    \E t \in UnitIds :
        th[t].kind = "color" /\ th[t].err = "" /\ Len(th[t].sent) = 2

(***************************************************************************)
(* Vocabulary of the decoder properties.                                   *)
(***************************************************************************)
Decoded == call.fn = "readResponse" /\ call.pc = "done"
Received == SubSeq(call.stream, 1, call.got)
Complete == call.got = Len(call.stream)

\* The prefix of s that ends at its last '-' (empty if it has none).
UpToLastDash(s) ==
    LET D == {i \in DOMAIN s : s[i] = "-"} IN
    IF D = {} THEN <<>> ELSE SubSeq(s, 1, CHOOSE i \in D : \A j \in D : j <= i)

\* The positions where the sentinel occurs in s, and s without the bytes of
\* those occurrences.
OccStarts(s) ==
    {i \in 1..(Len(s) - Len(DelimiterBytes) + 1) :
        SubSeq(s, i, i + Len(DelimiterBytes) - 1) = DelimiterBytes}
RECURSIVE KeepFrom(_, _, _)
KeepFrom(s, occ, i) ==
    IF i > Len(s) THEN <<>>
    ELSE (IF \E p \in occ : p <= i /\ i < p + Len(DelimiterBytes)
          THEN <<>> ELSE <<s[i]>>) \o KeepFrom(s, occ, i + 1)
Uncovered(s) == KeepFrom(s, OccStarts(s), 1)

(***************************************************************************)
(* C13.  Decode stops at the sentinel: once the bytes accumulated in a     *)
(* decode cycle contain the sentinel, the cycle has finished.  (The loop   *)
(* tests each ReadString result, which ends at the first '-' and so never  *)
(* holds the whole sentinel; the cycle goes on to the deadline.)           *)
(***************************************************************************)
DecodeStopsAtSentinel ==
    (call.fn = "readResponse" /\ Contains(call.builder, DelimiterBytes))
        => call.pc = "done"

(***************************************************************************)
(* C14.  Sentinel-split resilience: whenever a decode cycle ends after the *)
(* whole stream has been handed over, in one conn.Read or in several of    *)
(* any sizes, it returns the same text: the stream up to its last '-',     *)
(* with the sentinels removed, trimmed.                                    *)
(***************************************************************************)
SplitResilience ==
    (Decoded /\ Complete) =>
        call.text = TrimSpace(ReplaceAll(UpToLastDash(call.stream), DelimiterBytes))

\* A stream holding a sentinel was handed over in several reads and decoded
\* to a non-empty text.
SplitResilienceWitness ==
    /\ Decoded /\ Complete /\ call.reads = "several"
    /\ Contains(call.stream, DelimiterBytes)
    /\ call.text # <<>>

(***************************************************************************)
(* C15.  Framing round-trip: a frame is the JSON body immediately followed *)
(* by the sentinel, and a decode cycle that was handed the whole frame of  *)
(* a body that does not contain the sentinel returns the body.             *)
(***************************************************************************)
FramingRoundTrip ==
    (call.fn = "readResponse" /\ call.framed) =>
        /\ call.stream = call.body \o DelimiterBytes
        /\ (Decoded /\ Complete /\ ~Contains(call.body, DelimiterBytes))
              => call.text = call.body

\* The frame of a body with a '-' in it has been decoded.
FramingRoundTripWitness ==
    /\ Decoded /\ Complete /\ call.framed
    /\ HasDash(call.body) /\ ~Contains(call.body, DelimiterBytes)
    /\ call.text = call.body

(***************************************************************************)
(* C16.  The decoder never signals an error: however a decode cycle ends,  *)
(* the error it returns is nil, and no caller ever takes the branch that   *)
(* handles an error of readResponse.                                       *)
(***************************************************************************)
DecoderNeverErrors ==
    /\ Decoded => call.err = "nil"
    /\ \A t \in DOMAIN th : th[t].err \notin {"authRead", "cmdRead"}

\* A decode cycle ended in the middle of a stream, before any sentinel.
DecoderNeverErrorsWitness ==
    /\ Decoded /\ ~Complete /\ call.got > 0
    /\ ~Contains(Received, DelimiterBytes)

(***************************************************************************)
(* C17.  Partial content is returned: a decode cycle that ends before any  *)
(* sentinel has been received returns all bytes received, trimmed.  (The   *)
(* loop drops the bytes ReadString returns together with its error, so     *)
(* everything after the last '-' is lost.)                                 *)
(***************************************************************************)
PartialContentReturned ==
    (Decoded /\ ~Contains(Received, DelimiterBytes))
        => call.text = TrimSpace(Received)

(***************************************************************************)
(* C18.  As claimed: the text returned is the accumulated text without the *)
(* bytes of the sentinel's occurrences, trimmed, and contains no sentinel. *)
(***************************************************************************)
SentinelStripped ==
    Decoded =>
        /\ call.text = TrimSpace(Uncovered(call.builder))
        /\ ~Contains(call.text, DelimiterBytes)

(***************************************************************************)
(* C18, amended.  The text returned is the accumulated text without the    *)
(* bytes of the sentinel's occurrences, trimmed; what is left is not       *)
(* scanned again, so it is free of sentinels when every '<' of the         *)
(* accumulated text begins a sentinel (no fragment can then be joined to   *)
(* another).                                                               *)
(***************************************************************************)
SentinelOccurrencesStripped ==
    Decoded =>
        /\ call.text = TrimSpace(Uncovered(call.builder))
        /\ (\A i \in DOMAIN call.builder :
                call.builder[i] = "<" => i \in OccStarts(call.builder))
              => ~Contains(call.text, DelimiterBytes)

\* Two sentinels were accumulated and removed, leaving text.
SentinelStrippedWitness ==
    /\ Decoded
    /\ Cardinality(OccStarts(call.builder)) >= 2
    /\ call.text # <<>>

(***************************************************************************)
(* C19.  Chain expansion: when linkCubeChains returns, the link registry   *)
(* is what it was before followed, chain by chain and position by          *)
(* position, by one link joint_<type>_<A>_<B> for each pair of consecutive *)
(* names A, B: K-1 links for a chain of K names, none for K = 0 or 1.      *)
(***************************************************************************)
LinksOfChain(k) == IF k = 0 THEN 0 ELSE k - 1

RECURSIVE LinksBefore(_, _)
LinksBefore(cs, c) ==
    IF c <= 1 THEN 0
    ELSE LinksBefore(cs, c - 1) + LinksOfChain(Len(cs[c - 1]))

ChainExpansion ==
    (call.fn = "linkCubeChains" /\ call.pc = "done") =>
        LET cs == call.chains
            n0 == Len(call.before)
        IN  /\ IsPrefix(call.before, globalCubeLinks)
            /\ Len(globalCubeLinks) = n0 + LinksBefore(cs, Len(cs) + 1)
            /\ \A c \in DOMAIN cs : \A i \in 1..(Len(cs[c]) - 1) :
                  LET l == globalCubeLinks[n0 + LinksBefore(cs, c) + i] IN
                  /\ l.CubeA = cs[c][i] /\ l.CubeB = cs[c][i + 1]
                  /\ l.JointName = "joint_" \o call.jointType \o "_"
                                     \o cs[c][i] \o "_" \o cs[c][i + 1]

\* A call with a chain of three names after a chain of one name has returned,
\* the registry holding a link before it.
ChainExpansionWitness ==
    /\ call.fn = "linkCubeChains" /\ call.pc = "done"
    /\ call.before # <<>>
    /\ Len(call.chains) = 2
    /\ Len(call.chains[1]) = 1 /\ Len(call.chains[2]) = 3
    /\ Len(globalCubeLinks) = 3

(***************************************************************************)
(* C20.  Link lookup determinism: findClosestJoint(X) returns the joint    *)
(* name of the lowest-index link whose CubeA or CubeB is X, the empty      *)
(* string when no link touches X, and no step of it changes the registry.  *)
(***************************************************************************)
LinksTouching(x) ==
    {k \in DOMAIN globalCubeLinks :
        globalCubeLinks[k].CubeA = x \/ globalCubeLinks[k].CubeB = x}

LookupDeterminism ==
    [][call.fn = "findClosestJoint" =>
          /\ globalCubeLinks' = globalCubeLinks
          /\ call'.pc = "done" =>
                LET M == LinksTouching(call.targetCube) IN
                IF M = {} THEN call'.result = ""
                ELSE call'.result =
                        globalCubeLinks[CHOOSE k \in M : \A j \in M : k <= j].JointName]_vars

\* Two links touch the target, the first by its second cube, and the name of
\* the first was returned.
LookupDeterminismWitness ==
    /\ call.fn = "findClosestJoint" /\ call.pc = "done"
    /\ Len(globalCubeLinks) >= 2
    /\ LinksTouching(call.targetCube) = {1, 2}
    /\ globalCubeLinks[1].CubeA # call.targetCube
    /\ call.result = globalCubeLinks[1].JointName

(***************************************************************************)
(* Failures.                                                               *)
(***************************************************************************)
\* A thread one of whose dial, write or checked read calls has failed.
Failed(r) == r.err # "" \/ r.last = "writeFailed"

\* The next step of thread t, whichever it is.
ThreadStep(t) ==
    \/ Dial(t) \/ AuthWrite(t) \/ ReadResponse(t) \/ SendCommand(t)
    \/ Lock(t) \/ AppendRead(t) \/ AppendWrite(t) \/ Unlock(t)
    \/ Close(t) \/ WgDone(t)

\* C21 (failure isolation): whatever has failed in the units of a batch, a
\* sibling that has not finished can take its next step (its dial, its
\* authentication, its command, ...), unless it waits for a registry lock, in
\* which case the lock is held by a unit that has not failed and is inside
\* its critical section; and once every unit has finished, failed or not,
\* main can return from the barrier and can start the statement that follows.
FailureIsolation ==
    /\ \A u \in UnitIds : \A t \in UnitIds \ {u} :
          (Failed(th[u]) /\ th[t].pc # "done") =>
             \/ ENABLED ThreadStep(t)
             \/ /\ th[t].pc = "lock"
                /\ \E h \in cubeListMutex \cup linkListMutex :
                      /\ ~Failed(th[h])
                      /\ th[h].pc \in {"append", "store", "unlock"}
    /\ (mpc = "wait" /\ AllUnitsDone /\ ~exited) => ENABLED Wait
    /\ (mpc = "start" /\ Running) => ENABLED (StartBatch \/ Call)

\* One unit of a batch has failed to dial and has finished, its sibling is
\* about to write its command.
FailureIsolationWitness ==
    /\ mpc = "wait"
    /\ \E u \in UnitIds : \E t \in UnitIds \ {u} :
          /\ th[u].err = "dial" /\ th[u].pc = "done"
          /\ th[t].pc = "cmd" /\ th[t].err = ""

\* Thread t dials, writes or reads in this step.
NetworkOp(t) ==
    \/ th'[t].sent # th[t].sent
    \/ th'[t].last # th[t].last /\ th'[t].last \in {"dial", "read"}

\* The JSON frames thread record r has written, in order.
CommandsOf(r) == SelectSeq(r.sent, IsJson)

\* C22 (failure is terminal, without retry): a thread one of whose steps has
\* failed performs no further dial, write or read, and no thread writes the
\* same command twice.
FailureIsTerminal ==
    [][\A t \in DOMAIN th \cap DOMAIN th' :
          /\ Failed(th[t]) => ~NetworkOp(t)
          /\ \A i, j \in DOMAIN CommandsOf(th'[t]) :
                CommandsOf(th'[t])[i] = CommandsOf(th'[t])[j] => i = j]_vars

\* A batch function is running: main is in its launching loop or at its Wait.
InBatch == ip <= Len(Script) /\ Script[ip].op \in BatchOps /\ mpc \in {"launch", "wait"}

\* C23 (batch outcome invisible to the caller), as stated: whatever its units
\* do, a batch leaves the program state main can see as a batch all of whose
\* units failed leaves it, that is, with both registries as they were when
\* the batch started.
BatchOutcomeInvisible ==
    [][InBatch => /\ globalCubeList' = globalCubeList
                  /\ globalCubeLinks' = globalCubeLinks]_vars

\* C23, amended: a batch returns with its counter at zero and both locks
\* free whatever its units' outcomes; the color, stiffen, release and teardown
\* batches leave both registries as they were; the spawn batch leaves the
\* link registry as it was and extends the entity registry by one entry per
\* unit that did not fail, so that its outcome is visible in the registry.
BatchOutcomeVisibleInRegistryOnly ==
    [][InBatch =>
          /\ globalCubeLinks' = globalCubeLinks
          /\ IF AtOp("spawn") THEN IsPrefix(globalCubeList, globalCubeList')
             ELSE globalCubeList' = globalCubeList
          /\ mpc' = "start" =>
                /\ wg = 0 /\ cubeListMutex = {} /\ linkListMutex = {}
                /\ AtOp("spawn") =>
                      Len(globalCubeList) =
                         Cardinality({t \in UnitIds : ~Failed(th[t])})]_vars

\* A release batch all of whose units failed to dial is at its barrier, after
\* a spawn batch all of whose units recorded their names.
BatchOutcomeWitness ==
    /\ AtOp("unfreeze") /\ BarrierReady
    /\ UnitIds # {} /\ \A t \in UnitIds : th[t].err = "dial"
    /\ Len(globalCubeList) = Len(cubeGroups)

(***************************************************************************)
(* The stiffening strategies.                                              *)
(***************************************************************************)
\* Position of the first link of the registry named jn (0 if there is none).
LinkIndex(jn) ==
    IF \E k \in DOMAIN globalCubeLinks : globalCubeLinks[k].JointName = jn
    THEN CHOOSE k \in DOMAIN globalCubeLinks :
            /\ globalCubeLinks[k].JointName = jn
            /\ \A m \in 1..(k - 1) : globalCubeLinks[m].JointName # jn
    ELSE 0

ShortLivedOps == {"spawn", "color", "unfreeze", "despawn"}

\* C25 (per-operation connection pattern): the connection of a unit of a
\* spawn, color, release or teardown batch carries the authentication frame
\* first and then at most one command, the unit's own; and a unit that has
\* returned has closed the connection it opened (or never opened one, its
\* dial having failed).
PerOperationConnection ==
    \A t \in UnitIds :
       th[t].kind \in ShortLivedOps =>
          /\ Len(th[t].sent) <= 2
          /\ Len(th[t].sent) >= 1 => th[t].sent[1] = AuthFrame
          /\ Len(th[t].sent) = 2 =>
                /\ IsJson(th[t].sent[2])
                /\ th[t].sent[2].json.cube_name = th[t].arg
          /\ th[t].sent # <<>> => th[t].conn # "none"
          /\ th[t].pc \in {"wgdone", "done"} =>
                IF th[t].err = "dial" THEN th[t].conn = "none"
                ELSE th[t].conn = "closed"

\* A teardown unit has written its authentication and its one command, has
\* closed its connection and has finished, while a sibling is still using
\* its own connection.
PerOperationConnectionWitness ==
    \E t, u \in UnitIds :
       /\ th[t].kind = "despawn" /\ th[t].pc = "done"
       /\ Len(th[t].sent) = 2 /\ th[t].conn = "closed"
       /\ th[u].conn = "open" /\ Len(th[u].sent) = 1

\* The (parameter, value) pairs a stiffening frame carries.
PairsOf(frame) ==
    IF frame.json.type = "set_joint_param"
    THEN {[name |-> frame.json.param_name, value |-> frame.json.value]}
    ELSE frame.json.params

\* The (thread, position) of every command written for joint jn.
FramesFor(jn) ==
    {x \in (DOMAIN th) \X
          (1..(Len(globalCubeLinks) * Cardinality(StiffenParams) + 1)) :
        /\ x[2] <= Len(th[x[1]].sent)
        /\ IsJson(th[x[1]].sent[x[2]])
        /\ th[x[1]].sent[x[2]].json.joint_name = jn}

\* A stiffening function has run to its end and no dial, authentication or
\* checked read of any of its threads has failed.
StrategyCompleted ==
    /\ prog \in Strategies /\ ip = 1
    /\ IF StrategyOp(prog) \in BatchOps
       THEN /\ BarrierReady /\ Cardinality(UnitIds) = Len(globalCubeLinks)
            /\ \A t \in UnitIds : th[t].err = ""
       ELSE /\ 0 \in DOMAIN th /\ th[0].pc = "ret" /\ th[0].err = ""

\* C26 (stiffen strategy equivalence): whichever of the four functions has
\* run to its end over a registry, every link of the registry has received
\* every (parameter, value) pair of the parameter set exactly once and no
\* other joint has received anything; the three per-parameter functions
\* carry one pair per set_joint_param frame, the bulk function carries all
\* the pairs of a link in its one set_joint_params frame; the goroutine
\* functions use one connection per link, the other two a single connection.
StrategyEquivalence ==
    StrategyCompleted =>
       /\ \A k \in DOMAIN globalCubeLinks :
             \A p \in StiffenParams :
                Cardinality({x \in FramesFor(globalCubeLinks[k].JointName) :
                                p \in PairsOf(th[x[1]].sent[x[2]])}) = 1
       /\ \A t \in DOMAIN th : \A i \in DOMAIN th[t].sent :
             IsJson(th[t].sent[i]) =>
                /\ \E k \in DOMAIN globalCubeLinks :
                      th[t].sent[i].json.joint_name = globalCubeLinks[k].JointName
                /\ PairsOf(th[t].sent[i]) \subseteq StiffenParams
                /\ th[t].sent[i].json.type =
                      (IF prog = "stiffenAllJointsBULK" THEN "set_joint_params"
                       ELSE "set_joint_param")
                /\ Cardinality(PairsOf(th[t].sent[i])) =
                      (IF prog = "stiffenAllJointsBULK" THEN Cardinality(StiffenParams)
                       ELSE 1)
       /\ Cardinality({t \in DOMAIN th : th[t].conn # "none"}) =
             (IF StrategyOp(prog) \in BatchOps THEN Len(globalCubeLinks) ELSE 1)

\* A function has run to its end over a registry of two links.
StrategyEquivalenceWitness ==
    /\ StrategyCompleted
    /\ Len(globalCubeLinks) = 2
    /\ prog = "stiffenAllJointsBULK"

(***************************************************************************)
(* Actuation.                                                              *)
(***************************************************************************)
\* The joints of the actuation goroutines, in the order they were started.
CycleJoints == [i \in 1..Cardinality(CycleIds) |-> th[0 - i].arg]

\* C27 (actuation cycle): the goroutines started by rotateCubeJoints, with
\* the joints its loop has still to handle, are the joints the query
\* returned, one goroutine per joint; each goroutine writes on its own
\* connection set_joint_params commands for its joint with the motor enabled
\* and the target velocities v, -v, 0 in this order, sleeps between two
\* commands, and has written all three, the last with velocity 0, when it
\* completes.
ActuationCycle ==
    /\ CycleIds # {} =>
          CycleJoints \o (IF mpc = "go" THEN iter ELSE <<>>) \in JointReplies
    /\ \A t \in CycleIds :
          LET cs == CommandsOf(th[t]) IN
          /\ Len(cs) <= 3
          /\ \A i \in DOMAIN cs :
                /\ cs[i].json.type = "set_joint_params"
                /\ cs[i].json.joint_name = th[t].arg
                /\ cs[i].json.params.motor_enable = 1
                /\ cs[i].json.params.motor_target_velocity =
                      <<velocity, 0 - velocity, 0>>[i]
          /\ (th[t].pc = "cmd" /\ Len(cs) >= 1) => th[t].last = "sleep"
          /\ th[t].last = "sleep" => th[t].pc = "cmd"
          /\ (th[t].pc = "done" /\ th[t].err = "") =>
                /\ Len(cs) = 3
                /\ cs[3].json.params.motor_target_velocity = 0
                /\ th[t].conn = "closed"

\* Two joints were returned: the goroutine of one has completed its cycle
\* while the goroutine of the other is in its second sleep.
ActuationCycleWitness ==
    \E t, u \in CycleIds :
       /\ th[t].arg # th[u].arg
       /\ th[t].pc = "done" /\ Len(CommandsOf(th[t])) = 3
       /\ th[u].pc = "sleep" /\ Len(CommandsOf(th[u])) = 2

\* C28 (query failure yields no actuation): when getJointsForCube has failed
\* (its dial, a write, a checked read or the parsing of the reply, an empty
\* or cut-off reply included) it returns no joints, and the return of
\* rotateCubeJoints that follows starts no goroutine, leaves no thread and so
\* no connection behind, and takes main to its next statement.
QueryFailureNoActuation ==
    [][(/\ 0 \in DOMAIN th
        /\ th[0].kind = "getJoints" /\ th[0].pc = "ret" /\ th[0].err # "")
       => /\ th[0].tmp = <<>>
          /\ th[0].conn # "open"
          /\ 0 \notin DOMAIN th' =>
                /\ mpc' = "start" /\ ip' = ip + 1
                /\ DOMAIN th' = {}]_vars

\* The query has returned after a reply that could not be parsed.
QueryFailureWitness ==
    /\ 0 \in DOMAIN th
    /\ th[0].kind = "getJoints" /\ th[0].pc = "ret"
    /\ th[0].err = "unmarshal" /\ Len(th[0].sent) = 2

(***************************************************************************)
(* Locks.                                                                  *)
(***************************************************************************)
\* The positions between Lock and Unlock.
Critical == {"append", "store", "unlock"}

\* C29 (lock discipline): each of the two locks has at most one holder; the
\* holder of the entity lock is a spawn unit inside its append, the holder of
\* the link lock is linkCubes or linkCubeChains inside its append or
\* findClosestJoint inside its scan; a registry changes only in a step taken
\* while its own lock is held, and that step leaves the other registry
\* alone; and between taking a lock and releasing it the holder does not
\* dial, write, read or close.
LockDiscipline ==
    [][/\ Cardinality(cubeListMutex) <= 1 /\ Cardinality(linkListMutex) <= 1
       /\ \A t \in cubeListMutex :
             t \in DOMAIN th /\ th[t].kind = "spawn" /\ th[t].pc \in Critical
       /\ \A t \in linkListMutex :
             IF t \in DOMAIN th
             THEN th[t].kind \in {"linkCubes", "chains"} /\ th[t].pc \in Critical
             ELSE Looking("scan")
       /\ globalCubeList' # globalCubeList =>
             cubeListMutex # {} /\ globalCubeLinks' = globalCubeLinks
       /\ globalCubeLinks' # globalCubeLinks =>
             linkListMutex # {} /\ globalCubeList' = globalCubeList
       /\ \A t \in (cubeListMutex \cup linkListMutex \cup cubeListMutex'
                     \cup linkListMutex') \cap DOMAIN th :
             /\ t \in DOMAIN th'
             /\ th'[t].sent = th[t].sent
             /\ th'[t].conn = th[t].conn
             /\ th'[t].last = th[t].last]_vars

\* linkCubeChains holds the link lock in the middle of its appends, its
\* connection still open.
LockDisciplineWitness ==
    /\ linkListMutex = {0} /\ 0 \in DOMAIN th
    /\ th[0].kind = "chains" /\ th[0].pc = "store" /\ th[0].conn = "open"
    /\ globalCubeLinks # <<>>

(***************************************************************************)
(* Confinement.                                                            *)
(***************************************************************************)
\* The threads whose locals (connection and written frames included) change
\* in this step.
Written == {t \in DOMAIN th \cap DOMAIN th' : th'[t] # th[t]}

\* The name a command is about.
Subject(frame) ==
    IF "cube_name" \in DOMAIN frame.json THEN frame.json.cube_name
    ELSE frame.json.joint_name

\* What a goroutine was started for: a cube name, a link, or a joint name.
OwnSubject(r) == IF r.kind \in {"stiffen", "bulk"} THEN r.arg.JointName ELSE r.arg

\* C30 (confinement): a step changes the locals, the connection and the
\* written frames of at most one thread, and a step that does so changes no
\* local of main and starts or removes no thread, so that outside the two
\* registries (and the locks and the WaitGroup counter that synchronise the
\* threads) nothing is written by two threads; a connection is open only
\* between the dial and the close of its own thread; and every command a
\* goroutine has written is about the cube or the joint it was started for,
\* the bulk command carrying the parameter set unchanged.
Confinement ==
    [][/\ Cardinality(Written) <= 1
       /\ Written # {} =>
             /\ DOMAIN th' = DOMAIN th
             /\ UNCHANGED <<prog, ip, mpc, iter, exited, call>>
       /\ \A t \in DOMAIN th \cap DOMAIN th' :
             th'[t].conn # th[t].conn =>
                /\ Written = {t}
                /\ <<th[t].pc, th[t].conn, th'[t].conn>> \in
                      {<<"dial", "none", "open">>, <<"close", "open", "closed">>}
       /\ \A t \in DOMAIN th' \ {0} : \A i \in DOMAIN th'[t].sent :
             IsJson(th'[t].sent[i]) =>
                /\ Subject(th'[t].sent[i]) = OwnSubject(th'[t])
                /\ th'[t].kind = "bulk" =>
                      th'[t].sent[i].json.params = StiffenParams]_vars

\* Two goroutines of the same function (two actuation cycles, or two bulk
\* units) are at work at the same time: each has written a command on its own
\* open connection.
ConfinementWitness ==
    \E t, u \in DOMAIN th :
       /\ t # u /\ th[t].kind \in {"cycle", "bulk"} /\ th[u].kind = th[t].kind
       /\ th[t].conn = "open" /\ th[u].conn = "open"
       /\ Len(CommandsOf(th[t])) >= 1 /\ Len(CommandsOf(th[u])) >= 1

(***************************************************************************)
(* Batch membership.                                                       *)
(***************************************************************************)
\* The registry a function ranges over (the empty sequence if it ranges over
\* its arguments).
RegistryOf(op) ==
    IF op \in {"unfreeze", "despawn"} THEN globalCubeList
    ELSE IF op \in StiffenOps THEN globalCubeLinks
    ELSE <<>>

\* The items of the units of the current batch, in the order they were started.
UnitItems == [i \in 1..Cardinality(UnitIds) |-> th[i].arg]

\* The units started and the entries still to be handled are the registry,
\* for the goroutine batches and for the single-connection variants.
MembersAreRegistry ==
    /\ (InBatch /\ Script[ip].op \in {"unfreeze", "despawn", "stiffen", "bulk"}) =>
          UnitItems \o iter = RegistryOf(Script[ip].op)
    /\ (0 \in DOMAIN th /\ th[0].kind \in {"singleConn", "singleThreaded"}) =>
          /\ Len(th[0].queue) <= Len(globalCubeLinks)
          /\ th[0].queue = SubSeq(globalCubeLinks,
                                  Len(globalCubeLinks) - Len(th[0].queue) + 1,
                                  Len(globalCubeLinks))
          /\ th[0].pc \in {"dial", "auth", "authRead"} => th[0].queue = globalCubeLinks

\* C31 (batch membership is a snapshot), as stated: the members of a
\* registry-derived batch are the entries of the registry, and while such a
\* function runs over an empty registry no thread of it exists with a
\* connection.
BatchSnapshot ==
    /\ MembersAreRegistry
    /\ \A t \in DOMAIN th :
          (th[t].kind \in {"unfreeze", "despawn"} \cup StiffenOps
           /\ RegistryOf(th[t].kind) = <<>>) => th[t].conn = "none"

\* C31, amended: the members are the entries of the registry; a goroutine
\* batch over an empty registry starts no unit and goes to its Wait at once;
\* a single-connection variant over an empty registry dials and
\* authenticates its one connection and writes no command on it.
BatchSnapshotPerVariant ==
    /\ MembersAreRegistry
    /\ (InBatch /\ Script[ip].op \in {"unfreeze", "despawn", "stiffen", "bulk"}
        /\ RegistryOf(Script[ip].op) = <<>>) => (UnitIds = {} /\ mpc = "wait")
    /\ \A t \in DOMAIN th :
          (th[t].kind \in {"singleConn", "singleThreaded"} /\ globalCubeLinks = <<>>)
             => CommandsOf(th[t]) = <<>>

\* The bulk stiffening of the dog main is at its Wait with no unit, no link
\* having been recorded yet.
BatchSnapshotWitness ==
    /\ prog = "dog" /\ AtOp("bulk") /\ mpc = "wait"
    /\ UnitIds = {} /\ globalCubeLinks = <<>>
    /\ globalCubeList # <<>>


(***************************************************************************)
(* C32.  The per-chunk sentinel test can never succeed: no chunk that      *)
(* ReadString('-') returns contains the sentinel, and a decode cycle       *)
(* leaves its loop only when ReadString returns an error, that is when     *)
(* the reader holds no '-' and the deadline passes or the stream ends or   *)
(* fails.                                                                  *)
(***************************************************************************)
SentinelTestNeverSucceeds ==
    [][/\ (Decoding /\ HasDash(Buffered))
              => ~Contains(LineOf(Buffered), DelimiterBytes)
       /\ (Decoding /\ call'.pc = "done") => ~HasDash(Buffered)]_vars

\* A cycle has ended after it read a whole frame, sentinel included.
SentinelTestWitness ==
    /\ Decoded /\ call.framed
    /\ call.used = Len(call.stream)
    /\ Contains(call.builder, DelimiterBytes)


\* The decode cycles of a connection: those that have returned, then the
\* current one.  Of a cycle, the stream positions of the bytes it has put
\* in its builder, and of those its reader holds and has not returned.
Cycles ==
    call.past \o <<[from |-> call.from, used |-> call.used, got |-> call.got,
                    text |-> call.text]>>
ReturnedBy(c) == (c.from + 1)..c.used
HeldBy(c) == (c.used + 1)..c.got

(***************************************************************************)
(* C33.  No cross-cycle delivery on a reused connection: the bytes a       *)
(* cycle returns are the bytes of the stream from where its reader         *)
(* started to the last '-' it read; the bytes a finished cycle received    *)
(* after that '-' are returned by no cycle, and no byte is returned by     *)
(* two cycles.                                                             *)
(***************************************************************************)
NoCrossCycleDelivery ==
    /\ call.builder = SubSeq(call.stream, call.from + 1, call.used)
    /\ \A k \in DOMAIN Cycles :
          /\ Cycles[k].text
                = TrimSpace(ReplaceAll(SubSeq(call.stream, Cycles[k].from + 1,
                                              Cycles[k].used), DelimiterBytes))
             \/ (k = Len(Cycles) /\ call.pc = "read")
          /\ \A j \in DOMAIN Cycles :
                /\ j # k => ReturnedBy(Cycles[k]) \cap ReturnedBy(Cycles[j]) = {}
                /\ (k < Len(Cycles) \/ call.pc = "done")
                      => HeldBy(Cycles[k]) \cap ReturnedBy(Cycles[j]) = {}

\* A second cycle has returned bytes after the first one dropped some it had
\* received.
NoCrossCycleWitness ==
    /\ Len(Cycles) = 2 /\ call.pc = "done"
    /\ HeldBy(Cycles[1]) # {}
    /\ ReturnedBy(Cycles[1]) # {}
    /\ call.text # <<>>


\* A loop that ranges over the entity registry, or over the link registry,
\* without its lock is about to evaluate its range expression or is running.
RangingOverCubes ==
    /\ ip <= Len(Script) /\ Script[ip].op \in {"unfreeze", "despawn"}
    /\ mpc \in {"start", "launch"}
RangingOverLinks ==
    \/ /\ ip <= Len(Script) /\ Script[ip].op \in {"stiffen", "bulk"}
       /\ mpc \in {"start", "launch"}
    \/ /\ 0 \in DOMAIN th /\ th[0].kind \in {"singleConn", "singleThreaded"}
       /\ th[0].pc # "ret"

\* Thread t has an append to the entity registry, or to the link registry,
\* in progress or still ahead of it.
MayAppendCube(t) == th[t].kind = "spawn" /\ th[t].pc # "done"
MayAppendLink(t) ==
    th[t].kind \in {"linkCubes", "chains"} /\ th[t].pc \notin {"done", "ret"}

(***************************************************************************)
(* C34.  Race freedom of the unlocked registry reads: while               *)
(* unfreezeAllCubes or despawnAllCubes ranges over the entity registry no  *)
(* thread has an append to it in progress or ahead of it, and while one of *)
(* the four stiffen variants ranges over the link registry no thread has   *)
(* an append to that registry in progress or ahead of it.                  *)
(***************************************************************************)
UnlockedReadsRaceFree ==
    /\ RangingOverCubes => \A t \in DOMAIN th : ~MayAppendCube(t)
    /\ RangingOverLinks => \A t \in DOMAIN th : ~MayAppendLink(t)

\* unfreezeAllCubes is in the middle of its loop over a registry of two
\* entries: one unit is started, one entry is still to come.
UnlockedReadsWitness ==
    /\ AtOp("unfreeze") /\ mpc = "launch"
    /\ Len(globalCubeList) = 2 /\ Cardinality(UnitIds) = 1 /\ Len(iter) = 1


\* The holders of a registry lock, and the number of steps a holder is away
\* from its release: the appends it has left (linkCubeChains appends every
\* link of the call inside one critical section), the links findClosestJoint
\* has left to scan.
Holders == cubeListMutex \cup linkListMutex
StepsToRelease(t) ==
    IF t \in DOMAIN th
    THEN LET more == IF th[t].kind = "chains" /\ th[t].queue # <<>>
                     THEN 2 * (Len(th[t].queue) - 1) ELSE 0
         IN  CASE th[t].pc = "append" -> 3 + more
               [] th[t].pc = "store" -> 2 + more
               [] th[t].pc = "unlock" -> 1
               [] OTHER -> 0
    ELSE IF Looking("scan") THEN Len(globalCubeLinks) - call.i + 2 ELSE 0

(***************************************************************************)
(* C35.  Deadlock freedom of the registry locks: nobody holds the entity   *)
(* lock and the link lock together; nobody waits for a lock it holds;      *)
(* every holder can take its next step whatever the others do, and each    *)
(* step of a holder either releases the lock or brings the release one     *)
(* step nearer, on every path, the early return of findClosestJoint        *)
(* included.  So whoever waits for a lock waits for a holder that gets to  *)
(* its release.                                                            *)
(***************************************************************************)
LocksDeadlockFree ==
    /\ [](/\ cubeListMutex \cap linkListMutex = {}
          /\ \A t \in DOMAIN th : th[t].pc = "lock" => t \notin Holders
          /\ Looking("lock") => linkListMutex = {}
          /\ \A t \in Holders :
                /\ StepsToRelease(t) > 0
                /\ IF t \in DOMAIN th
                   THEN ENABLED (AppendRead(t) \/ AppendWrite(t) \/ Unlock(t))
                   ELSE ENABLED (ScanMatch \/ ScanSkip \/ ScanEnd))
    /\ [][\A t \in Holders :
             \/ t \notin Holders'
             \/ StepsToRelease(t)' < StepsToRelease(t)
             \/ /\ t \in DOMAIN th /\ t \in DOMAIN th' /\ th'[t] = th[t]]_vars

\* A spawn unit waits for the entity lock while another unit, at the end of
\* its append, is about to release it.
LocksDeadlockFreeWitness ==
    \E t, u \in UnitIds :
        /\ th[t].kind = "spawn" /\ th[t].pc = "lock"
        /\ cubeListMutex = {u} /\ th[u].pc = "unlock"


\* The units of the current batch that have not run their wg.Done.
Pending == {t \in UnitIds : th[t].pc # "done"}

(***************************************************************************)
(* C36.  Wait-group accounting: the counter is never negative and is, in   *)
(* every state, the number of units started and not yet through their      *)
(* Done, so every unit was added before it started and before Wait, and    *)
(* every unit that has finished, on whichever path, has run Done once;     *)
(* outside a batch the counter is 0; and Wait can return exactly when      *)
(* every unit of the batch has finished.                                   *)
(***************************************************************************)
WaitGroupAccounting ==
    /\ wg >= 0
    /\ wg = Cardinality(Pending)
    /\ ~InBatch => (wg = 0 /\ UnitIds = {})
    /\ (mpc = "wait" /\ ~exited) => (ENABLED Wait <=> AllUnitsDone)

\* Main is at Wait; one unit has returned early after a failure, another is
\* still at work, and the counter is 1.
WaitGroupAccountingWitness ==
    /\ mpc = "wait" /\ wg = 1
    /\ \E t \in UnitIds : th[t].pc = "done" /\ th[t].err # ""
    /\ \E t \in UnitIds : th[t].pc \notin {"done", "wgdone"} /\ th[t].err = ""


\* The threads of kind wait-group unit, and of kind sequential helper.
IsUnit(t) == t \in UnitIds
IsHelper(t) == t = 0

(***************************************************************************)
(* C37.  No connection outlives its barrier: a unit of a wait-group batch  *)
(* reaches its Done only with its connection closed (or never opened, its  *)
(* dial having failed); a thread is at its conn.Close only with its        *)
(* connection open, and once the connection is closed the thread has       *)
(* nothing left but its Done or its return; when the barrier of a batch    *)
(* can return no unit of the batch has an open connection; a sequential    *)
(* helper returns to main only with its connection closed or never         *)
(* opened; and rotateAllJointsForCube has closed every connection it       *)
(* opened, but the one it is using, and has none open between two links    *)
(* and when it returns.                                                    *)
(***************************************************************************)
NoConnectionOutlivesBarrier ==
    /\ \A t \in DOMAIN th :
          /\ (IsUnit(t) /\ th[t].pc \in {"wgdone", "done"}) =>
                IF th[t].err = "dial" THEN th[t].conn = "none"
                ELSE th[t].conn = "closed"
          /\ (IsHelper(t) /\ th[t].pc = "ret") =>
                IF th[t].err = "dial" THEN th[t].conn = "none"
                ELSE th[t].conn = "closed"
          /\ th[t].pc = "close" => th[t].conn = "open"
          /\ th[t].conn = "closed" => th[t].pc \in {"wgdone", "done", "ret"}
    /\ BarrierReady => \A t \in UnitIds : th[t].conn # "open"
    /\ call.fn = "rotateAllJointsForCube" =>
          /\ call.opened = call.closed + (IF call.conn = "open" THEN 1 ELSE 0)
          /\ call.pc \in {"loop", "done"} => call.conn # "open"

\* The barrier of a stiffen batch is about to return: one unit closed its
\* connection after a failed write, another after its last command.
NoConnectionOutlivesBarrierWitness ==
    /\ BarrierReady /\ AtOp("stiffen")
    /\ \E t, u \in UnitIds :
          /\ th[t].last = "close" /\ th[t].err # "" /\ th[t].conn = "closed"
          /\ th[u].last = "close" /\ th[u].err = "" /\ th[u].conn = "closed"


\* The links one call of linkCubeChains(chains, "hinge", ...) records.
LinksOfCall ==
    [i \in DOMAIN ChainPairs(chains) |->
        ChainLink("hinge", ChainPairs(chains)[i][1], ChainPairs(chains)[i][2])]

\* How a call can fail before it records: at its dial, at the write of the
\* password, at the write of its command.
WriteFailures == {"dial", "auth", "cmd"}

(***************************************************************************)
(* C38.  Link recording is independent of the server's answer and atomic   *)
(* per call: linkCubeChains ends early only at a failed dial or a failed   *)
(* write, never at a decode cycle, and has recorded its links when it      *)
(* returns exactly if none of them failed; from its first append to its    *)
(* last it holds the link lock, so the registry holds none, or all, of     *)
(* the links of the call whenever the lock is free; linkCubes goes from    *)
(* the write of its command to its append with no read in between, and     *)
(* has recorded its link when it returns exactly if dial and both writes   *)
(* succeeded.                                                              *)
(***************************************************************************)
LinkRecording ==
    \A t \in DOMAIN th :
       /\ th[t].kind = "chains" =>
             /\ th[t].err \in WriteFailures \cup {""}
             /\ th[t].pc = "lock" => th[t].last = "read"
             /\ th[t].pc \in Critical => t \in linkListMutex
             /\ t \notin linkListMutex =>
                   globalCubeLinks = IF th[t].pc \in {"close", "ret"} /\ th[t].err = ""
                                     THEN LinksOfCall ELSE <<>>
       /\ th[t].kind = "linkCubes" =>
             /\ th[t].err \in WriteFailures \cup {""}
             /\ th[t].pc = "lock" => th[t].last = "write"
             /\ th[t].pc = "ret" =>
                   (th[t].err = "" <=> Item(th[t]) \in Elems(globalCubeLinks))

\* linkCubeChains has returned after its decode cycles with all the links
\* of the call recorded.
LinkRecordingWitness ==
    /\ 0 \in DOMAIN th /\ th[0].kind = "chains" /\ th[0].pc = "ret"
    /\ th[0].err = "" /\ globalCubeLinks = LinksOfCall /\ Len(LinksOfCall) = 3
    /\ linkListMutex = {}


\* The frames handleCube is meant to write: password, spawn of <name>, release,
\* freeze and despawn of <name>_BASE.
LifecycleFrames(name) ==
    <<AuthFrame,
      sendJSONMessage([type |-> "spawn_cube", cube_name |-> name,
                       is_base |-> TRUE]),
      sendJSONMessage([type |-> "freeze_cube", cube_name |-> name \o "_BASE",
                       freeze |-> FALSE]),
      sendJSONMessage([type |-> "freeze_cube", cube_name |-> name \o "_BASE",
                       freeze |-> TRUE]),
      sendJSONMessage([type |-> "despawn_cube", cube_name |-> name \o "_BASE"])>>

(***************************************************************************)
(* C39.  Single-connection entity lifecycle: what a handleCube unit has    *)
(* passed to its connection is, at every step, a prefix of: the password,  *)
(* spawn_cube of <name>, freeze_cube(false), freeze_cube(true) and         *)
(* despawn_cube of <name>_BASE; a unit writes only on a connection it has  *)
(* opened and only if none of its earlier writes failed, so the despawn is *)
(* written only after the four writes before it succeeded; and a unit      *)
(* whose write failed writes nothing more and goes to its return.          *)
(***************************************************************************)
CubeLifecycle ==
    [][\A t \in DOMAIN th \cap DOMAIN th' :
          th[t].kind = "handleCube" =>
             /\ IsPrefix(th'[t].sent, LifecycleFrames(th[t].arg))
             /\ IsPrefix(th[t].sent, th'[t].sent)
             /\ Len(th'[t].sent) <= Len(th[t].sent) + 1
             /\ th'[t].sent # th[t].sent =>
                   /\ th[t].conn = "open" /\ th[t].err = ""
                   /\ th[t].last # "writeFailed"
             /\ th'[t].last = "writeFailed" =>
                   th'[t].pc = "close" /\ th'[t].err \in {"auth", "cmd"}
             /\ th[t].err # "" =>
                   th'[t].pc \in {"close", "wgdone", "done"}]_vars

\* The unit started second has written its whole lifecycle before the unit
\* started first has written anything.
CubeLifecycleWitness ==
    /\ prog = "handleCube" /\ UnitIds = {1, 2}
    /\ th[1].sent = <<>>
    /\ th[2].sent = LifecycleFrames(th[2].arg) /\ th[2].last = "close"
    /\ th[2].err = ""


\* The JSON body of the message being encoded: data before the sentinel is
\* appended to it.
BodyOf(c) ==
    IF c.pc = "append" THEN c.data
    ELSE SubSeq(c.data, 1, Len(c.data) - Len(DelimiterBytes))

(***************************************************************************)
(* C40.  Encoded bodies cannot collide with the sentinel: whatever the     *)
(* string value of a message, the sentinel included, the bytes            *)
(* json.Marshal returns hold no '<' and so no sentinel; and the bytes      *)
(* passed to conn.Write are that body followed by the sentinel, which      *)
(* occurs in them once, at the end.                                        *)
(***************************************************************************)
EncodedBodyHasNoSentinel ==
    (call.fn = "sendJSONMessage" /\ call.pc # "marshal") =>
        /\ BodyOf(call) = MarshalMessage(call.msg)
        /\ "<" \notin Elems(BodyOf(call))
        /\ ~Contains(BodyOf(call), DelimiterBytes)
        /\ call.pc \in {"write", "done"} =>
              /\ call.data = BodyOf(call) \o DelimiterBytes
              /\ OccStarts(call.data) = {Len(call.data) - Len(DelimiterBytes) + 1}
        /\ call.written \in {<<>>, call.data}

\* A message whose string value holds the sentinel has been written.
EncodedBodyWitness ==
    /\ call.fn = "sendJSONMessage" /\ call.pc = "done" /\ call.err = ""
    /\ Contains(call.msg.cube_name, DelimiterBytes)
    /\ call.written = call.data

====
